---- MODULE Spec2Model ----
(***************************************************************************)
(* Model of the picture frame's processed-image cache                      *)
(* (src/src/transfer.py, class ImageTransfer) together with the parts of   *)
(* its environment that the cache reads: the source files of the queue     *)
(* directory, the file-system clock, and the files of the processed        *)
(* directory.                                                              *)
(*                                                                         *)
(* get_processed_image is modelled statement by statement, one action per  *)
(* file-system access.  Three specifications share these actions: Spec (the *)
(* picture frame's thread calling get_processed_image and clear_cache while *)
(* the queue directory changes), SpecBatch (the same thread calling         *)
(* preprocess_all) and SpecConc (two workers calling get_processed_image    *)
(* concurrently).  A source file's modification time never exceeds the      *)
(* clock.                                                                   *)
(***************************************************************************)
EXTENDS Integers, Sequences, FiniteSets, TLC

(***************************************************************************)
(* Bounds of the model.                                                    *)
(***************************************************************************)
\* The file-system clock runs from 0 to MaxTime.
MaxTime == 1

(***************************************************************************)
(* Source paths.  A path is a directory and a file name (stem, extension). *)
(* queue/x.jpg and other/x.jpg share their file name.                      *)
(***************************************************************************)
PathAX == [dir |-> "queue", stem |-> "x", ext |-> "jpg"]
PathAY == [dir |-> "queue", stem |-> "y", ext |-> "jpg"]
PathBX == [dir |-> "other", stem |-> "x", ext |-> "jpg"]
Paths == {PathAX, PathAY, PathBX}
\* The paths the web uploader writes and deletes: the files of the queue.
QueuePaths == {p \in Paths : p.dir = "queue"}
\* preprocess_all receives what Slideshow.get_next_image returned, which may
\* be None.
NonePath == [dir |-> "none", stem |-> "none", ext |-> "none"]

\* File contents: two decodable pictures and one file that is no picture.
Pictures == {"pic1", "pic2"}
Contents == Pictures \cup {"garbage"}

\* The callers of the ImageTransfer: the picture frame's own thread (main.py),
\* and two workers that call it concurrently.
Main == {"main"}
Workers == {"w1", "w2"}
Threads == Main \cup Workers

(***************************************************************************)
(* ImageTransfer.__init__: the processing settings of the transfer.        *)
(***************************************************************************)
Settings == [dither_mode |-> "atkinson", contrast |-> "1.2", brightness |-> "1.0",
             sharpness |-> "1.0"]

(***************************************************************************)
(* ImageTransfer._get_cache_filename: stem + "_" + md5(name)[:8] + ".png". *)
(* The digest is a function of the file name (stem and extension) alone.   *)
(***************************************************************************)
NameHash(stem, ext) == <<"md5", stem, ext>>

\* A cache file name made from the whole path instead of the file name.
CacheFilenameOfPath(p) ==
  [stem |-> p.stem, hash |-> <<"md5", p.dir, p.stem, p.ext>>, ext |-> "png"]

CacheFilename(p) == [stem |-> p.stem, hash |-> NameHash(p.stem, p.ext), ext |-> "png"]

Keys == {[stem |-> p.stem, hash |-> NameHash(p.stem, p.ext), ext |-> "png"] : p \in Paths}

(***************************************************************************)
(* Bitmaps and files.  ImageProcessor.process_image is a function of the   *)
(* decoded picture and the settings; its result is named by both.          *)
(***************************************************************************)
NoBitmap == [from |-> "none", settings |-> "none"]
ProcessImage(content, settings) == [from |-> content, settings |-> settings.dither_mode]

\* A file of the processed directory: absent, or present with a modification
\* time and its bytes.  A complete PNG has its header and its image data; a
\* file that was opened for writing and not yet written is empty.
NoFile == [present |-> FALSE, mtime |-> 0, hdr |-> FALSE, idat |-> NoBitmap]
EmptyFile(t) == [present |-> TRUE, mtime |-> t, hdr |-> FALSE, idat |-> NoBitmap]
\* Image.save of a mode-1 image as PNG, and Image.open of it.
EncodePNG(bitmap, t) == [present |-> TRUE, mtime |-> t, hdr |-> TRUE, idat |-> bitmap]
IsPNG(f) == f.present /\ f.hdr
DecodePNG(f) == f.idat

\* A source file.
NoSource == [present |-> FALSE, mtime |-> 0, content |-> "garbage"]

\* What a call left behind: nothing yet, a returned value, or an exception.
NoResult == [kind |-> "none", bitmap |-> NoBitmap, exc |-> "none", count |-> 0]
Returned(b) == [kind |-> "image", bitmap |-> b, exc |-> "none", count |-> 0]
ReturnedNone == [kind |-> "None", bitmap |-> NoBitmap, exc |-> "none", count |-> 0]
ReturnedCount(n) == [kind |-> "count", bitmap |-> NoBitmap, exc |-> "none", count |-> n]
Raised(e) == [kind |-> "raised", bitmap |-> NoBitmap, exc |-> e, count |-> 0]

VARIABLES
  now,        \* the file-system clock
  src,        \* the source files: path -> file
  cache,      \* the processed directory: cache file name -> file
  op,         \* per caller: the method of ImageTransfer it is in
  pc,         \* per caller: its position in get_processed_image
  arg,        \* per caller: source_path of the running get_processed_image
  sm,         \* per caller: source_mtime (line 74)
  img,        \* per caller: processed_img (line 86)
  created,    \* per caller: Image.save found no file at cache_path
  ret,        \* per caller: the outcome of the running call
  batch,      \* per caller: image_paths of the running preprocess_all
  bi,         \* per caller: the loop index of preprocess_all (1-based)
  logged,     \* per caller: the paths logger.error named in preprocess_all
  \* history, for stating the properties
  ran,        \* per caller: process_image calls made by the running request
  snap,       \* per caller: the request's cache file as it was when the request began
  touched,    \* per caller: cache file names the running request read or wrote
  attempted,  \* per caller: paths preprocess_all has attempted so far
  failed,     \* per caller: paths whose processing raised in preprocess_all
  prev,       \* the last call the picture frame's thread finished, kept while
              \* the source it processed has not been modified since it began
  dirty,      \* per caller: the source of the running request was modified
              \* after the request began
  shared,     \* per caller: another caller's request ran on the same cache
              \* file name while the running request did
  \* ImageProcessor._resize_maintain_aspect (image_processor.py)
  fpc,        \* the position in _resize_maintain_aspect
  fsrc,       \* img.size of the argument: <<width, height>>
  ftarget,    \* <<self.width, self.height>>
  fnew,       \* <<new_width, new_height>>
  fout,       \* the outcome: the canvas returned, or the exception
  \* ImageProcessor.process_image (image_processor.py)
  ppc,        \* the position in process_image
  ptarget,    \* <<self.width, self.height>>
  pfile,      \* the image stored at image_path
  pmode,      \* dither_mode
  pgray,      \* the grayscale image handed to _apply_dithering
  pimg,       \* img
  pwarn,      \* the warnings logged
  pout,       \* the outcome: the image returned, or the exception
  pfactors,   \* contrast, brightness and sharpness
  psteps,     \* history: the steps of process_image that ran, in order
  pvisits,    \* history: the visits of the loop of _atkinson_dither
  \* Slideshow (slideshow.py)
  image_dir,  \* self.image_dir: whether it exists, and the file names in it
  image_list, \* self.image_list
  current_index, \* self.current_index
  loop,       \* self.loop
  sret,       \* what the last call of a Slideshow method left behind
  calls,      \* history: get_next_image calls made since construction, while
              \* the directory was not changed and no other method was called
  last,       \* history: the last method called, the image list before it,
              \* and whether the method called before it was reset()
  \* EInkDisplay (display_controller.py)
  epd,        \* self.epd is set
  initialized, \* self.initialized
  dlast,      \* history: what the last method called did
  \* ButtonHandler (button_handler.py)
  debounce_ms, \* self.debounce_ms
  callback,   \* self.callback is set
  last_press_time, \* self.last_press_time, in milliseconds
  button_initialized, \* self.initialized
  clock,      \* time.time(), in milliseconds
  presses,    \* history: the calls of _button_callback, in order
  \* PictureFrame (main.py)
  config,     \* self.config: the startup options
  interval,   \* self.interval
  running,    \* self.running
  skip_to_next, \* self.skip_to_next
  mpc,        \* the position of the main thread in start and what it calls
  hpc,        \* the position of the signal handler that runs, if one does
  caller,     \* the method the main thread called display.sleep from
  waited,     \* the iterations of the wait loop that slept
  signals,    \* history: the signals received
  panel,      \* history: the init and sleep calls made to the panel's driver
  unserved,   \* history: a press was delivered and no wait has ended since
  erred,      \* history: the slideshow loop caught an error
  lastlog     \* history: the last line the slideshow loop logged

vars == <<now, src, cache, op, pc, arg, sm, img, created, ret, batch, bi,
          logged, ran, snap, touched, attempted, failed, prev, dirty, shared,
          fpc, fsrc, ftarget, fnew, fout,
          ppc, ptarget, pfile, pmode, pgray, pimg, pwarn, pout,
          pfactors, psteps, pvisits,
          image_dir, image_list, current_index, loop, sret, calls, last,
          epd, initialized, dlast,
          debounce_ms, callback, last_press_time, button_initialized, clock,
          presses,
          config, interval, running, skip_to_next, mpc, hpc, caller, waited,
          signals, panel, unserved, erred, lastlog>>

locals == <<arg, sm, img, created, ret>>
batchVars == <<batch, bi, logged, attempted, failed>>
history == <<ran, snap, touched, prev, dirty, shared>>
transferVars == <<now, src, cache, op, pc, locals, batchVars, history>>
fitVars == <<fpc, fsrc, ftarget, fnew, fout>>
processVars == <<ppc, ptarget, pfile, pmode, pgray, pimg, pwarn, pout,
                 pfactors, psteps, pvisits>>
showVars == <<image_dir, image_list, current_index, loop, sret, calls, last>>
displayVars == <<epd, initialized, dlast>>
buttonVars == <<debounce_ms, callback, last_press_time, button_initialized,
                clock, presses>>
frameVars == <<config, interval, running, skip_to_next, mpc, hpc, caller,
               waited, signals, panel, unserved, erred, lastlog>>

NoPrev == [op |-> "none", path |-> NonePath, bitmap |-> NoBitmap, count |-> 0]
PrevClear(n) == [op |-> "clear", path |-> NonePath, bitmap |-> NoBitmap, count |-> n]
PrevGet(p, b) == [op |-> "get", path |-> p, bitmap |-> b, count |-> 0]
EmptyCache == [k \in Keys |-> NoFile]

InitTransfer ==
  /\ now = 0
  /\ src = [p \in Paths |-> [present |-> TRUE, mtime |-> 0, content |-> "pic1"]]
  /\ cache = EmptyCache
  /\ op = [t \in Threads |-> "idle"]
  /\ pc = [t \in Threads |-> "idle"]
  /\ arg = [t \in Threads |-> NonePath]
  /\ sm = [t \in Threads |-> -1]
  /\ img = [t \in Threads |-> NoBitmap]
  /\ created = [t \in Threads |-> FALSE]
  /\ ret = [t \in Threads |-> NoResult]
  /\ batch = [t \in Threads |-> <<>>]
  /\ bi = [t \in Threads |-> 1]
  /\ logged = [t \in Threads |-> <<>>]
  /\ ran = [t \in Threads |-> 0]
  /\ snap = [t \in Threads |-> NoFile]
  /\ touched = [t \in Threads |-> {}]
  /\ attempted = [t \in Threads |-> <<>>]
  /\ failed = [t \in Threads |-> {}]
  /\ prev = NoPrev
  /\ dirty = [t \in Threads |-> FALSE]
  /\ shared = [t \in Threads |-> FALSE]

(***************************************************************************)
(* The environment: the clock, and the web uploader (web_uploader.py),     *)
(* which saves and deletes files of the queue directory.                   *)
(***************************************************************************)
Tick ==
  /\ now < MaxTime
  /\ now' = now + 1
  /\ UNCHANGED <<src, cache, op, pc, locals, batchVars, history>>

Modified(p) ==
  /\ dirty' = [t \in Threads |-> dirty[t] \/ (op[t] = "get" /\ arg[t] = p)]
  /\ prev' = IF prev.path = p THEN NoPrev ELSE prev

\* upload_file: file.save(UPLOAD_FOLDER / filename).  allowed_file checks the
\* extension only, so the bytes saved need not be a picture.
Upload(p, c) ==
  /\ src[p] # [present |-> TRUE, mtime |-> now, content |-> c]
  /\ src' = [src EXCEPT ![p] = [present |-> TRUE, mtime |-> now, content |-> c]]
  /\ Modified(p)
  /\ UNCHANGED <<now, cache, op, pc, locals, batchVars, ran, snap, touched, shared>>

\* delete_file: file_path.unlink().
Delete(p) ==
  /\ src[p].present
  /\ src' = [src EXCEPT ![p] = NoSource]
  /\ Modified(p)
  /\ UNCHANGED <<now, cache, op, pc, locals, batchVars, ran, snap, touched, shared>>

(***************************************************************************)
(* ImageTransfer.get_processed_image                                       *)
(***************************************************************************)
\* Another caller is inside a request whose cache file name is k.
OthersOn(t, k) ==
  {u \in Threads \ {t} : pc[u] \notin {"idle", "loop", "batch_done"} /\ op[u] # "clear"
                           /\ CacheFilename(arg[u]) = k}

\* cache_path kept in a field of the ImageTransfer, which the callers share:
\* the path of the request that began first.
KOfFirst(t) ==
  IF \E u \in Workers \ {t} : pc[u] \notin {"idle", "exists"}
  THEN CacheFilename(arg[CHOOSE u \in Workers \ {t} : pc[u] \notin {"idle", "exists"}])
  ELSE CacheFilename(arg[t])

\* lines 68-69: cache_path, a local of the request.
K(t) == CacheFilename(arg[t])

\* Entering get_processed_image(p): lines 65-69.
Enter(t, p) ==
  /\ arg' = [arg EXCEPT ![t] = p]
  /\ sm' = [sm EXCEPT ![t] = -1]
  /\ img' = [img EXCEPT ![t] = NoBitmap]
  /\ created' = [created EXCEPT ![t] = FALSE]
  /\ ret' = [ret EXCEPT ![t] = NoResult]
  /\ ran' = [ran EXCEPT ![t] = 0]
  /\ snap' = [snap EXCEPT ![t] = cache[CacheFilename(p)]]
  /\ touched' = [touched EXCEPT ![t] = {}]
  /\ dirty' = [dirty EXCEPT ![t] = FALSE]
  /\ shared' = [u \in Threads |->
                  IF u = t THEN OthersOn(t, CacheFilename(p)) # {}
                  ELSE shared[u] \/ u \in OthersOn(t, CacheFilename(p))]

\* A caller calls get_processed_image(p).
Call(t, p) ==
  /\ op[t] = "idle"
  /\ op' = [op EXCEPT ![t] = "get"]
  /\ pc' = [pc EXCEPT ![t] = "exists"]
  /\ Enter(t, p)
  /\ UNCHANGED <<now, src, cache, batchVars, prev>>

Raise(t, e) ==
  /\ ret' = [ret EXCEPT ![t] = Raised(e)]
  /\ pc' = [pc EXCEPT ![t] = "raised"]

Goto(t, l) == pc' = [pc EXCEPT ![t] = l]

Touch(t) == touched' = [touched EXCEPT ![t] = @ \cup {K(t)}]

\* line 72: cache_path.exists()
CheckExists(t) ==
  /\ pc[t] = "exists"
  /\ Goto(t, IF cache[K(t)].present THEN "stat_source" ELSE "process")
  /\ Touch(t)
  /\ UNCHANGED <<now, src, cache, op, locals, batchVars, ran, snap, prev, dirty, shared>>

\* line 74: source_path.stat().st_mtime
StatSource(t) ==
  /\ pc[t] = "stat_source"
  /\ IF src[arg[t]].present
       THEN /\ sm' = [sm EXCEPT ![t] = src[arg[t]].mtime]
            /\ Goto(t, "stat_cache")
            /\ UNCHANGED ret
       ELSE /\ Raise(t, "FileNotFoundError")
            /\ UNCHANGED sm
  /\ UNCHANGED <<now, src, cache, op, arg, img, created, batchVars, history>>

\* line 77: the freshness test
FreshStrict(cache_mtime, source_mtime) == cache_mtime > source_mtime
FreshAlways(cache_mtime, source_mtime) == TRUE
Fresh(cache_mtime, source_mtime) == cache_mtime >= source_mtime

\* lines 75-83: cache_path.stat().st_mtime and the comparison
StatCache(t) ==
  /\ pc[t] = "stat_cache"
  /\ IF ~cache[K(t)].present
       THEN Raise(t, "FileNotFoundError")
       ELSE /\ Goto(t, IF Fresh(cache[K(t)].mtime, sm[t]) THEN "open" ELSE "process")
            /\ UNCHANGED ret
  /\ Touch(t)
  /\ UNCHANGED <<now, src, cache, op, arg, sm, img, created, batchVars, ran, snap, prev, dirty, shared>>

\* line 79: return Image.open(cache_path)
OpenCache(t) ==
  /\ pc[t] = "open"
  /\ IF IsPNG(cache[K(t)])
       THEN /\ ret' = [ret EXCEPT ![t] = Returned(DecodePNG(cache[K(t)]))]
            /\ Goto(t, "returned")
       ELSE Raise(t, IF cache[K(t)].present THEN "UnidentifiedImageError"
                     ELSE "FileNotFoundError")
  /\ Touch(t)
  /\ UNCHANGED <<now, src, cache, op, arg, sm, img, created, batchVars, ran, snap, prev, dirty, shared>>

\* process_image that opens its output file before it decodes the source.
ProcessOpensOutputFirst(t) ==
  /\ pc[t] = "process"
  /\ ran' = [ran EXCEPT ![t] = @ + 1]
  /\ cache' = [cache EXCEPT ![CacheFilename(arg[t])] = EmptyFile(now)]
  /\ IF ~src[arg[t]].present
       THEN Raise(t, "FileNotFoundError") /\ UNCHANGED img
       ELSE IF src[arg[t]].content \notin Pictures
       THEN Raise(t, "UnidentifiedImageError") /\ UNCHANGED img
       ELSE /\ img' = [img EXCEPT ![t] = ProcessImage(src[arg[t]].content, Settings)]
            /\ Goto(t, "save_open")
            /\ UNCHANGED ret
  /\ UNCHANGED <<now, src, op, arg, sm, created, batchVars, snap, touched, prev, dirty, shared>>

\* lines 86-92: self.processor.process_image(str(source_path), ...), which
\* raises when the file is missing (image_processor.py line 53) or is no
\* picture (line 55), and re-raises (line 96).
Process(t) ==
  /\ pc[t] = "process"
  /\ ran' = [ran EXCEPT ![t] = @ + 1]
  /\ IF ~src[arg[t]].present
       THEN Raise(t, "FileNotFoundError") /\ UNCHANGED img
       ELSE IF src[arg[t]].content \notin Pictures
       THEN Raise(t, "UnidentifiedImageError") /\ UNCHANGED img
       ELSE /\ img' = [img EXCEPT ![t] = ProcessImage(src[arg[t]].content, Settings)]
            /\ Goto(t, "save_open")
            /\ UNCHANGED ret
  /\ UNCHANGED <<now, src, cache, op, arg, sm, created, batchVars, snap, touched, prev, dirty, shared>>

\* line 95, first half: processed_img.save(cache_path) opens cache_path for
\* writing, which creates or truncates it; the open can fail.
SaveOpen(t) ==
  /\ pc[t] = "save_open"
  /\ \/ /\ created' = [created EXCEPT ![t] = ~cache[K(t)].present]
        /\ cache' = [cache EXCEPT ![K(t)] = EmptyFile(now)]
        /\ Goto(t, "save_write")
        /\ UNCHANGED ret
     \/ /\ Raise(t, "OSError")
        /\ UNCHANGED <<created, cache>>
  /\ Touch(t)
  /\ UNCHANGED <<now, src, op, arg, sm, img, batchVars, ran, snap, prev, dirty, shared>>

\* lines 95-98, second half: the encoder writes the PNG and the image is
\* returned; or the write fails, and Image.save removes the file if it had
\* created it (an older Pillow leaves it) and leaves it truncated otherwise.
SaveWrite(t) ==
  /\ pc[t] = "save_write"
  /\ \/ /\ cache' = [cache EXCEPT ![K(t)] = EncodePNG(img[t], now)]
        /\ ret' = [ret EXCEPT ![t] = Returned(img[t])]
        /\ Goto(t, "returned")
     \/ /\ \E removed \in (IF created[t] THEN BOOLEAN ELSE {FALSE}) :
             cache' = [cache EXCEPT ![K(t)] =
                         IF removed THEN NoFile
                         ELSE IF @.present THEN [@ EXCEPT !.mtime = now]
                         ELSE EmptyFile(now)]
        /\ Raise(t, "OSError")
  /\ Touch(t)
  /\ UNCHANGED <<now, src, op, arg, sm, img, created, batchVars, ran, snap, prev, dirty, shared>>

\* The caller of get_processed_image has its image or its exception.
Finish(t) ==
  /\ op[t] \in {"get", "clear"}
  /\ pc[t] \in {"returned", "raised"}
  /\ prev' = IF t \notin Main THEN prev
             ELSE IF op[t] = "clear" THEN PrevClear(ret[t].count)
             ELSE IF ret[t].kind = "image" /\ ~dirty[t] THEN PrevGet(arg[t], ret[t].bitmap)
             ELSE NoPrev
  /\ op' = [op EXCEPT ![t] = "idle"]
  /\ pc' = [pc EXCEPT ![t] = "idle"]
  /\ arg' = [arg EXCEPT ![t] = NonePath]
  /\ sm' = [sm EXCEPT ![t] = -1]
  /\ img' = [img EXCEPT ![t] = NoBitmap]
  /\ created' = [created EXCEPT ![t] = FALSE]
  /\ ret' = [ret EXCEPT ![t] = NoResult]
  /\ ran' = [ran EXCEPT ![t] = 0]
  /\ snap' = [snap EXCEPT ![t] = NoFile]
  /\ touched' = [touched EXCEPT ![t] = {}]
  /\ dirty' = [dirty EXCEPT ![t] = FALSE]
  /\ shared' = [shared EXCEPT ![t] = FALSE]
  /\ UNCHANGED <<now, src, cache, batchVars>>

(***************************************************************************)
(* ImageTransfer.clear_cache                                               *)
(***************************************************************************)
\* A glob that matches no cache file.
GlobJpg(dir) == {k \in Keys : dir[k].present /\ k.ext = "jpg"}

\* line 124: self.processed_dir.glob('*.png'); every cache file name ends in
\* .png (line 115).
GlobPng(dir) == {k \in Keys : dir[k].present /\ k.ext = "png"}

\* lines 123-129: unlink every file of the glob, count them, return the count.
ClearCache(t) ==
  /\ op[t] = "idle"
  /\ op' = [op EXCEPT ![t] = "clear"]
  /\ pc' = [pc EXCEPT ![t] = "returned"]
  /\ cache' = [k \in Keys |-> IF k \in GlobPng(cache) THEN NoFile ELSE cache[k]]
  /\ ret' = [ret EXCEPT ![t] = ReturnedCount(Cardinality(GlobPng(cache)))]
  /\ UNCHANGED <<now, src, arg, sm, img, created, batchVars, ran, snap, touched, prev, dirty, shared>>

(***************************************************************************)
(* ImageTransfer.preprocess_all                                            *)
(***************************************************************************)
\* The lists preprocess_all is called with.
BatchItems == QueuePaths \cup {NonePath}
BatchLists ==
  {l \in UNION {[1..n -> BatchItems] : n \in 0..Cardinality(BatchItems)} :
     \A i, j \in 1..Len(l) : i # j => l[i] # l[j]}

\* line 138: the call.
CallBatch(t, paths) ==
  /\ op[t] = "idle"
  /\ op' = [op EXCEPT ![t] = "batch"]
  /\ pc' = [pc EXCEPT ![t] = "loop"]
  /\ batch' = [batch EXCEPT ![t] = paths]
  /\ bi' = [bi EXCEPT ![t] = 1]
  /\ logged' = [logged EXCEPT ![t] = <<>>]
  /\ attempted' = [attempted EXCEPT ![t] = <<>>]
  /\ failed' = [failed EXCEPT ![t] = {}]
  /\ UNCHANGED <<now, src, cache, locals, history>>

\* lines 140-143: the head of the loop.  Path(None).name raises a TypeError
\* inside the try block; any other item goes to get_processed_image.  After
\* the last item the method falls off its end (line 147) and returns None.
BatchIter(t) ==
  /\ op[t] = "batch"
  /\ pc[t] = "loop"
  /\ IF bi[t] > Len(batch[t])
       THEN /\ Goto(t, "batch_done")
            /\ ret' = [ret EXCEPT ![t] = ReturnedNone]
            /\ UNCHANGED <<arg, sm, img, created, batchVars, ran, snap, touched, dirty, shared>>
       ELSE /\ attempted' = [attempted EXCEPT ![t] = Append(@, batch[t][bi[t]])]
            /\ IF batch[t][bi[t]] = NonePath
                 THEN /\ logged' = [logged EXCEPT ![t] = Append(@, batch[t][bi[t]])]
                      /\ failed' = [failed EXCEPT ![t] = @ \cup {batch[t][bi[t]]}]
                      /\ bi' = [bi EXCEPT ![t] = @ + 1]
                      /\ UNCHANGED <<pc, locals, batch, ran, snap, touched, dirty, shared>>
                 ELSE /\ Goto(t, "exists")
                      /\ Enter(t, batch[t][bi[t]])
                      /\ UNCHANGED <<batch, bi, logged, failed>>
  /\ UNCHANGED <<now, src, cache, op, prev>>

\* The exception of an item leaves preprocess_all.
BatchAfterAborts(t) ==
  /\ op[t] = "batch"
  /\ pc[t] \in {"returned", "raised"}
  /\ IF pc[t] = "raised"
       THEN /\ Goto(t, "batch_done")
            /\ failed' = [failed EXCEPT ![t] = @ \cup {arg[t]}]
            /\ UNCHANGED <<ret, bi, logged>>
       ELSE /\ Goto(t, "loop")
            /\ ret' = [ret EXCEPT ![t] = NoResult]
            /\ bi' = [bi EXCEPT ![t] = @ + 1]
            /\ UNCHANGED <<logged, failed>>
  /\ UNCHANGED <<now, src, cache, op, arg, sm, img, created, batch, attempted, history>>

\* The except clause swallows the exception without logging it.
BatchAfterSilent(t) ==
  /\ op[t] = "batch"
  /\ pc[t] \in {"returned", "raised"}
  /\ Goto(t, "loop")
  /\ IF pc[t] = "raised"
       THEN /\ failed' = [failed EXCEPT ![t] = @ \cup {arg[t]}]
            /\ UNCHANGED logged
       ELSE UNCHANGED <<logged, failed>>
  /\ bi' = [bi EXCEPT ![t] = @ + 1]
  /\ ret' = [ret EXCEPT ![t] = NoResult]
  /\ UNCHANGED <<now, src, cache, op, arg, sm, img, created, batch, attempted, history>>

\* lines 143-145: get_processed_image returned, or raised an Exception, which
\* the except clause logs with the path; the loop goes on.
BatchAfter(t) ==
  /\ op[t] = "batch"
  /\ pc[t] \in {"returned", "raised"}
  /\ Goto(t, "loop")
  /\ IF pc[t] = "raised"
       THEN /\ logged' = [logged EXCEPT ![t] = Append(@, arg[t])]
            /\ failed' = [failed EXCEPT ![t] = @ \cup {arg[t]}]
       ELSE UNCHANGED <<logged, failed>>
  /\ bi' = [bi EXCEPT ![t] = @ + 1]
  /\ ret' = [ret EXCEPT ![t] = NoResult]
  /\ UNCHANGED <<now, src, cache, op, arg, sm, img, created, batch, attempted, history>>

\* The caller of preprocess_all has its outcome.
FinishBatch(t) ==
  /\ op[t] = "batch"
  /\ pc[t] = "batch_done"
  /\ prev' = NoPrev
  /\ op' = [op EXCEPT ![t] = "idle"]
  /\ pc' = [pc EXCEPT ![t] = "idle"]
  /\ arg' = [arg EXCEPT ![t] = NonePath]
  /\ sm' = [sm EXCEPT ![t] = -1]
  /\ img' = [img EXCEPT ![t] = NoBitmap]
  /\ created' = [created EXCEPT ![t] = FALSE]
  /\ ret' = [ret EXCEPT ![t] = NoResult]
  /\ batch' = [batch EXCEPT ![t] = <<>>]
  /\ bi' = [bi EXCEPT ![t] = 1]
  /\ logged' = [logged EXCEPT ![t] = <<>>]
  /\ attempted' = [attempted EXCEPT ![t] = <<>>]
  /\ failed' = [failed EXCEPT ![t] = {}]
  /\ ran' = [ran EXCEPT ![t] = 0]
  /\ snap' = [snap EXCEPT ![t] = NoFile]
  /\ touched' = [touched EXCEPT ![t] = {}]
  /\ dirty' = [dirty EXCEPT ![t] = FALSE]
  /\ shared' = [shared EXCEPT ![t] = FALSE]
  /\ UNCHANGED <<now, src, cache>>

(***************************************************************************)
(* Specifications                                                          *)
(***************************************************************************)
\* The statements of get_processed_image.
Step(t) ==
  \/ CheckExists(t)
  \/ StatSource(t)
  \/ StatCache(t)
  \/ OpenCache(t)
  \/ Process(t)
  \/ SaveOpen(t)
  \/ SaveWrite(t)

(***************************************************************************)
(* ImageProcessor._resize_maintain_aspect (image_processor.py).  An image  *)
(* is known here by its size only.  The two ratios are floating-point      *)
(* numbers in the code; they are compared and truncated here as exact      *)
(* fractions.                                                              *)
(***************************************************************************)
\* ImageProcessor.__init__: the default target_width and target_height.
TargetWidth == 400
TargetHeight == 300

\* The largest width and height of the sources enumerated.
MaxSrc == 6

\* Sizes an image can have (Pillow allows an empty image), and the values
\* ImageProcessor can be constructed with, which __init__ stores unchecked.
SrcSizes ==
  ((0..MaxSrc) \X (0..MaxSrc)) \cup {<<800, 400>>, <<400, 300>>, <<300, 400>>, <<401, 1>>}
Targets ==
  {<<TargetWidth, TargetHeight>>, <<4, 3>>, <<0, 3>>, <<4, 0>>, <<-4, 3>>, <<4, -3>>}

NoSize == <<>>
FitNone == [kind |-> "none", size |-> NoSize, fill |-> "none", at |-> NoSize,
            pasted |-> NoSize, exc |-> "none"]
\* A canvas of the given size and fill, with an image of size pasted on it at
\* offset at.
FitCanvas(size, at, pasted) ==
  [kind |-> "canvas", size |-> size, fill |-> "white", at |-> at,
   pasted |-> pasted, exc |-> "none"]
FitRaised(e) == [FitNone EXCEPT !.kind = "raised", !.exc = e]

Abs(n) == IF n < 0 THEN -n ELSE n

\* int(num / den) of Python, den # 0: the quotient truncated toward zero.
IntOfQuotient(num, den) ==
  LET q == Abs(num) \div Abs(den)
  IN IF (num < 0) = (den < 0) THEN q ELSE -q

\* w / h > tw / th, for h # 0 and th # 0 and h > 0.
RatioGreater(w, h, tw, th) ==
  IF th > 0 THEN w * th > tw * h ELSE w * th < tw * h

\* Lines 113-120: <<new_width, new_height>>, for a source of positive width
\* and height.
NewSize(size, target) ==
  IF RatioGreater(size[1], size[2], target[1], target[2])
    THEN <<target[1], IntOfQuotient(target[1] * size[2], size[1])>>
    ELSE <<IntOfQuotient(target[2] * size[1], size[2]), target[2]>>

\* An offset that puts the image at the canvas's left or top edge.
OffsetAtEdge(target, size) == 0

\* (self.width - new_width) // 2
Offset(target, size) == (target - size) \div 2

FitIdle ==
  /\ fpc = "idle"
  /\ fsrc = NoSize
  /\ ftarget = NoSize
  /\ fnew = NoSize
  /\ fout = FitNone

FitRaise(e) ==
  /\ fpc' = "raised"
  /\ fout' = FitRaised(e)
  /\ UNCHANGED <<fsrc, ftarget, fnew>>

\* Lines 110-111: img.width / img.height and self.width / self.height.
FitRatios ==
  /\ fpc = "ratios"
  /\ IF fsrc[2] = 0 \/ ftarget[2] = 0
       THEN FitRaise("ZeroDivisionError")
       ELSE fpc' = "size" /\ UNCHANGED <<fsrc, ftarget, fnew, fout>>
  /\ UNCHANGED <<transferVars, processVars, showVars, displayVars, buttonVars, frameVars>>

\* Lines 113-120: the new size.  self.width / img_ratio divides by 0.0 when
\* the source's width is 0.
FitSize ==
  /\ fpc = "size"
  /\ IF RatioGreater(fsrc[1], fsrc[2], ftarget[1], ftarget[2]) /\ fsrc[1] = 0
       THEN FitRaise("ZeroDivisionError")
       ELSE /\ fnew' = NewSize(fsrc, ftarget)
            /\ fpc' = "resize"
            /\ UNCHANGED <<fsrc, ftarget, fout>>
  /\ UNCHANGED <<transferVars, processVars, showVars, displayVars, buttonVars, frameVars>>

\* Line 123: img.resize((new_width, new_height), Image.LANCZOS).  Pillow
\* returns a copy when the size does not change, and otherwise raises
\* ValueError("height and width must be > 0") for a size below 1.
FitResize ==
  /\ fpc = "resize"
  /\ IF fnew # fsrc /\ (fnew[1] < 1 \/ fnew[2] < 1)
       THEN FitRaise("ValueError")
       ELSE fpc' = "canvas" /\ UNCHANGED <<fsrc, ftarget, fnew, fout>>
  /\ UNCHANGED <<transferVars, processVars, showVars, displayVars, buttonVars, frameVars>>

\* Line 126: Image.new('RGB', (self.width, self.height), 'white').  Pillow
\* raises ValueError("Width and height must be >= 0") for a negative size.
FitNew ==
  /\ fpc = "canvas"
  /\ IF ftarget[1] < 0 \/ ftarget[2] < 0
       THEN FitRaise("ValueError")
       ELSE fpc' = "paste" /\ UNCHANGED <<fsrc, ftarget, fnew, fout>>
  /\ UNCHANGED <<transferVars, processVars, showVars, displayVars, buttonVars, frameVars>>

\* Lines 127-131: the offsets, canvas.paste and the return.
FitPaste ==
  /\ fpc = "paste"
  /\ fout' = FitCanvas(ftarget,
                       <<Offset(ftarget[1], fnew[1]), Offset(ftarget[2], fnew[2])>>,
                       fnew)
  /\ fpc' = "done"
  /\ UNCHANGED <<fsrc, ftarget, fnew>>
  /\ UNCHANGED <<transferVars, processVars, showVars, displayVars, buttonVars, frameVars>>

(***************************************************************************)
(* ImageProcessor.process_image and the dithering (image_processor.py).    *)
(* An image is the sequence of its rows, a row the sequence of its pixels: *)
(* a triple <<r, g, b>> in mode RGB, a number 0..255 in mode L, and 0 or   *)
(* 255 in mode 1 (as Pillow stores it).                                    *)
(***************************************************************************)
\* The largest width and height of the images enumerated.
MaxW == 5
MaxH == 3

NoImage == <<>>
SizeOf(image) == IF image = NoImage THEN NoSize ELSE <<Len(image[1]), Len(image)>>
PixelsOf(image) == {image[y][x] : y \in 1..Len(image), x \in 1..Len(image[1])}

\* The gray levels of the sources enumerated, and the sources: one level
\* everywhere, two levels in a chequerboard, or two levels in columns.
Levels == {0, 100, 128, 129, 200, 255}
Gray(v) == <<v, v, v>>
Chequered(w, h, a, b) ==
  [y \in 1..h |-> [x \in 1..w |-> IF (x + y) % 2 = 0 THEN Gray(a) ELSE Gray(b)]]
Columns(w, h, a, b) ==
  [y \in 1..h |-> [x \in 1..w |-> IF x % 2 = 0 THEN Gray(a) ELSE Gray(b)]]
SourceImages(w, h) ==
  {Chequered(w, h, a, b) : a \in Levels, b \in Levels}
    \cup {Columns(w, h, a, b) : a \in Levels, b \in Levels}

\* The names _apply_dithering knows, and others a caller may pass.
DitherModes == {"floyd-steinberg", "atkinson", "ordered", "threshold"}
OtherModes == {"bayer", "Atkinson"}

ProcNone == [kind |-> "none", image |-> NoImage, exc |-> "none"]
ProcReturned(image) == [kind |-> "image", image |-> image, exc |-> "none"]
ProcRaised(e) == [kind |-> "raised", image |-> NoImage, exc |-> e]

\* Pillow, mode RGB to mode L: (r*19595 + g*38470 + b*7471 + 0x8000) >> 16.
ToL(rgb) == (rgb[1] * 19595 + rgb[2] * 38470 + rgb[3] * 7471 + 32768) \div 65536

\* img.convert('L') of an image in mode RGB.
ConvertL(image) ==
  [y \in 1..Len(image) |-> [x \in 1..Len(image[y]) |-> ToL(image[y][x])]]

Clip8(v) == IF v < 0 THEN 0 ELSE IF v > 255 THEN 255 ELSE v

\* A threshold that turns light pixels black.
ThresholdInverted(v) == IF v >= 128 THEN 0 ELSE 255

\* Pillow, mode L to mode 1 without dithering: (in >= 128) ? 255 : 0.
Threshold(v) == IF v >= 128 THEN 255 ELSE 0

\* Pillow, mode L to mode 1 with dithering (tobilevel), one row: errors is
\* the array of errors carried from the row above, indexed 0..width.
RECURSIVE FSPixels(_, _, _, _, _, _, _)
FSPixels(row, x, l, l0, l1, errors, out) ==
  IF x > Len(row)
    THEN [out |-> out, errors |-> [errors EXCEPT ![x - 1] = l0]]
    ELSE LET v == Clip8(row[x] + IntOfQuotient(l + errors[x], 16))
             o == IF v > 128 THEN 255 ELSE 0
             e == v - o
         IN FSPixels(row, x + 1, 7 * e, 5 * e + l1, e,
                     [errors EXCEPT ![x - 1] = 3 * e + l0], Append(out, o))

RECURSIVE FSRows(_, _, _, _)
FSRows(image, y, errors, out) ==
  IF y > Len(image)
    THEN out
    ELSE LET r == FSPixels(image[y], 1, 0, 0, 0, errors, <<>>)
         IN FSRows(image, y + 1, r.errors, Append(out, r.out))

FloydSteinberg(image) ==
  FSRows(image, 1, [i \in 0..Len(image[1]) |-> 0], <<>>)

\* img.convert('1', dither=...): Pillow implements Floyd-Steinberg only and
\* uses it for every dither value other than NONE, ORDERED included.
ConvertBilevel(image, dither) ==
  IF dither = "NONE"
    THEN [y \in 1..Len(image) |-> [x \in 1..Len(image[y]) |-> Threshold(image[y][x])]]
    ELSE FloydSteinberg(image)

\* _atkinson_dither, lines 185-186: the pixels the loop visits, in its
\* order: rows 0..height-3 and columns 1..width-3, counted from 0.
Visited(w, h) == (1..(w - 3)) \X (0..(h - 3))
RECURSIVE InLoopOrder(_)
InLoopOrder(S) ==
  IF S = {} THEN <<>>
  ELSE LET first == CHOOSE p \in S :
                      \A q \in S : p[2] < q[2] \/ (p[2] = q[2] /\ p[1] <= q[1])
       IN <<first>> \o InLoopOrder(S \ {first})

\* The array holds floating-point numbers whose fractions are multiples of
\* 1/8 to the power of the number of pixels visited: they are kept here as
\* integers, multiplied by that power.
Scale(w, h) == 8 ^ Cardinality(Visited(w, h))

\* Lines 187-208 with the error also added to the pixel on the left.
AtkinsonPixelBackward(a, x, y, s) ==
  LET old_pixel == a[y + 1][x + 1]
      new_pixel == IF old_pixel > 128 * s THEN 255 * s ELSE 0
      error == (old_pixel - new_pixel) \div 8
  IN [j \in 1..Len(a) |-> [i \in 1..Len(a[1]) |->
        IF <<i - 1, j - 1>> = <<x, y>> THEN new_pixel
        ELSE IF <<i - 1, j - 1>> \in {<<x - 1, y>>, <<x + 1, y>>, <<x + 2, y>>,
                                      <<x - 1, y + 1>>, <<x, y + 1>>, <<x + 1, y + 1>>}
          THEN a[j][i] + error
        ELSE a[j][i]]]

\* Lines 187-208, for the pixel at column x and row y (counted from 0) of
\* array a (indexed from 1), scaled by s.
AtkinsonPixel(a, x, y, s) ==
  LET h == Len(a)
      w == Len(a[1])
      old_pixel == a[y + 1][x + 1]
      new_pixel == IF old_pixel > 128 * s THEN 255 * s ELSE 0
      error == (old_pixel - new_pixel) \div 8
      gets == {<<x, y>>}
      plus == {p \in {<<x + 1, y>>, <<x + 2, y>>, <<x - 1, y + 1>>,
                      <<x, y + 1>>, <<x + 1, y + 1>>, <<x, y + 2>>} :
                 p[1] >= 0 /\ p[1] < w /\ p[2] < h}
  IN [j \in 1..h |-> [i \in 1..w |->
        IF <<i - 1, j - 1>> \in gets THEN new_pixel
        ELSE IF <<i - 1, j - 1>> \in plus THEN a[j][i] + error
        ELSE a[j][i]]]

RECURSIVE AtkinsonLoop(_, _, _)
AtkinsonLoop(a, todo, s) ==
  IF todo = <<>> THEN a
  ELSE AtkinsonLoop(AtkinsonPixel(a, Head(todo)[1], Head(todo)[2], s), Tail(todo), s)

\* Lines 176-211: the array after the loop, clipped to 0..255 and cut to
\* whole numbers by astype('uint8').
AtkinsonArray(image) ==
  LET w == Len(image[1])
      h == Len(image)
      s == Scale(w, h)
      a == AtkinsonLoop([y \in 1..h |-> [x \in 1..w |-> image[y][x] * s]],
                        InLoopOrder(Visited(w, h)), s)
  IN [y \in 1..h |-> [x \in 1..w |->
        (IF a[y][x] < 0 THEN 0 ELSE IF a[y][x] > 255 * s THEN 255 * s ELSE a[y][x])
          \div s]]

\* _atkinson_dither returning only the part of the image its loop works on.
AtkinsonDitherCropped(image) ==
  LET all == ConvertBilevel(AtkinsonArray(image), "FLOYDSTEINBERG")
  IN [y \in 1..(Len(image) - 2) |-> [x \in 1..(Len(image[1]) - 2) |-> all[y][x]]]

\* _atkinson_dither returning the array without the conversion to mode 1.
AtkinsonDitherArrayOnly(image) == AtkinsonArray(image)

\* _atkinson_dither: line 212 converts the array with Image.convert('1'),
\* whose default is Floyd-Steinberg dithering.
AtkinsonDither(image) == ConvertBilevel(AtkinsonArray(image), "FLOYDSTEINBERG")

\* _apply_dithering with an else branch that thresholds silently.
ApplyDitheringElseThreshold(image, dither_mode) ==
  CASE dither_mode = "floyd-steinberg" ->
         [image |-> ConvertBilevel(image, "FLOYDSTEINBERG"), warnings |-> <<>>]
    [] dither_mode = "atkinson" ->
         [image |-> AtkinsonDither(image), warnings |-> <<>>]
    [] dither_mode = "ordered" ->
         [image |-> ConvertBilevel(image, "ORDERED"), warnings |-> <<>>]
    [] OTHER ->
         [image |-> ConvertBilevel(image, "NONE"), warnings |-> <<>>]

\* _apply_dithering: the image returned and the warnings logged.
ApplyDithering(image, dither_mode) ==
  CASE dither_mode = "floyd-steinberg" ->
         [image |-> ConvertBilevel(image, "FLOYDSTEINBERG"), warnings |-> <<>>]
    [] dither_mode = "atkinson" ->
         [image |-> AtkinsonDither(image), warnings |-> <<>>]
    [] dither_mode = "ordered" ->
         [image |-> ConvertBilevel(image, "ORDERED"), warnings |-> <<>>]
    [] dither_mode = "threshold" ->
         [image |-> ConvertBilevel(image, "NONE"), warnings |-> <<>>]
    [] OTHER ->
         [image |-> ConvertBilevel(image, "FLOYDSTEINBERG"),
          warnings |-> <<<<"Unknown dither mode", dither_mode>>>>]

\* canvas.paste(img, (offset_x, offset_y)) on a white canvas of the given size.
Paste(size, image, at) ==
  [y \in 1..size[2] |-> [x \in 1..size[1] |->
     IF /\ x - at[1] \in 1..Len(image[1])
        /\ y - at[2] \in 1..Len(image)
       THEN image[y - at[2]][x - at[1]]
       ELSE Gray(255)]]

\* The visits of the loop of _atkinson_dither on array a: for each pixel of
\* todo, in order, where it is, the array before the visit and after it.
RECURSIVE AtkinsonVisits(_, _, _)
AtkinsonVisits(a, todo, s) ==
  IF todo = <<>> THEN <<>>
  ELSE LET after == AtkinsonPixel(a, Head(todo)[1], Head(todo)[2], s)
       IN <<[at |-> Head(todo), before |-> a, after |-> after, scale |-> s]>>
            \o AtkinsonVisits(after, Tail(todo), s)

\* The visits _atkinson_dither makes on an image.
AtkinsonTrace(image) ==
  LET w == Len(image[1])
      h == Len(image)
      s == Scale(w, h)
  IN AtkinsonVisits([y \in 1..h |-> [x \in 1..w |-> image[y][x] * s]],
                    InLoopOrder(Visited(w, h)), s)

\* The multipliers of process_image: <<numerator, denominator>>.  The ones
\* enumerated are 1.0, and 1.5, 0.5 and 2.0, whose products with pixel
\* values are exact in floating point.
Identity == <<1, 1>>
Contrasts == {Identity, <<3, 2>>}
Brightnesses == {Identity, <<1, 2>>}
Sharpnesses == {Identity, <<2, 1>>}
NoFactors == [contrast |-> Identity, brightness |-> Identity, sharpness |-> Identity]

\* A test that applies an enhancement whatever its multiplier.
AppliesAlways(factor) == TRUE

\* Lines 68, 73, 78: if contrast != 1.0, and so on.
Applies(factor) == factor # Identity

\* Pillow, Image.blend(degenerate, image, alpha) for one channel:
\* d + alpha * (p - d), cut to 0..255 and to a whole number.
BlendValue(d, p, alpha) ==
  LET num == alpha[2] * d + alpha[1] * (p - d)
  IN IF num <= 0 THEN 0
     ELSE IF num >= 255 * alpha[2] THEN 255
     ELSE num \div alpha[2]

Blend(degenerate, image, alpha) ==
  [y \in 1..Len(image) |-> [x \in 1..Len(image[y]) |->
     [c \in 1..3 |-> BlendValue(degenerate[y][x][c], image[y][x][c], alpha)]]]

RECURSIVE SumRow(_, _)
SumRow(row, x) == IF x > Len(row) THEN 0 ELSE ToL(row[x]) + SumRow(row, x + 1)
RECURSIVE SumRows(_, _)
SumRows(image, y) ==
  IF y > Len(image) THEN 0 ELSE SumRow(image[y], 1) + SumRows(image, y + 1)

\* ImageEnhance.Contrast: the degenerate image is the mean gray level,
\* int(mean + 0.5), everywhere.
MeanLevel(image) ==
  LET count == Len(image) * Len(image[1])
  IN (2 * SumRows(image, 1) + count) \div (2 * count)
EnhanceContrast(image, factor) ==
  LET m == MeanLevel(image)
  IN Blend([y \in 1..Len(image) |-> [x \in 1..Len(image[y]) |-> Gray(m)]],
           image, factor)

\* ImageEnhance.Brightness: the degenerate image is black.
EnhanceBrightness(image, factor) ==
  Blend([y \in 1..Len(image) |-> [x \in 1..Len(image[y]) |-> Gray(0)]],
        image, factor)

\* Pillow, ImageFilter.SMOOTH: the 3 x 3 kernel (1 1 1 / 1 5 1 / 1 1 1) / 13
\* plus 0.5, on the pixels that are not on the image's edge; the pixels of
\* the edge, and an image smaller than the kernel, are copied.
Smooth(image) ==
  LET h == Len(image)
      w == Len(image[1])
  IN [y \in 1..h |-> [x \in 1..w |->
       IF x = 1 \/ x = w \/ y = 1 \/ y = h
         THEN image[y][x]
         ELSE [c \in 1..3 |->
                Clip8((2 * ( image[y - 1][x - 1][c] + image[y - 1][x][c] + image[y - 1][x + 1][c]
                           + image[y][x - 1][c] + 5 * image[y][x][c] + image[y][x + 1][c]
                           + image[y + 1][x - 1][c] + image[y + 1][x][c] + image[y + 1][x + 1][c])
                       + 13) \div 26)]]]

\* ImageEnhance.Sharpness: the degenerate image is the smoothed image.
EnhanceSharpness(image, factor) == Blend(Smooth(image), image, factor)

\* A source that is one pixel wider than the target and one pixel high.
Sliver(w) == [y \in 1..1 |-> [x \in 1..(w + 1) |-> Gray(255)]]

ProcessIdle ==
  /\ ppc = "idle"
  /\ ptarget = NoSize
  /\ pfile = NoImage
  /\ pmode = "none"
  /\ pfactors = NoFactors
  /\ pgray = NoImage
  /\ pimg = NoImage
  /\ pwarn = <<>>
  /\ pout = ProcNone
  /\ psteps = <<>>
  /\ pvisits = <<>>

\* Lines 52-61: the file must exist; Image.open; a file in mode RGB is not
\* converted.  Lines 94-96 log an exception and raise it again.
ProcOpen ==
  /\ ppc = "open"
  /\ IF pfile = NoImage
       THEN /\ ppc' = "raised"
            /\ pout' = ProcRaised("FileNotFoundError")
            /\ pimg' = pimg
       ELSE /\ ppc' = "fit"
            /\ pimg' = pfile
            /\ pout' = pout
  /\ UNCHANGED <<ptarget, pfile, pmode, pfactors, pgray, pwarn, psteps, pvisits>>
  /\ UNCHANGED <<transferVars, fitVars, showVars, displayVars, buttonVars, frameVars>>

\* Line 64: _resize_maintain_aspect.  The sources enumerated have the
\* target's size, for which the new size is the source's, img.resize returns
\* a copy and the paste covers the canvas, or are so wide that the new
\* height is 0, for which img.resize raises ValueError.
ProcFit ==
  /\ ppc = "fit"
  /\ LET new == NewSize(SizeOf(pimg), ptarget)
     IN /\ new = SizeOf(pimg) \/ new[1] < 1 \/ new[2] < 1
        /\ IF new = SizeOf(pimg)
             THEN /\ pimg' = Paste(ptarget, pimg,
                                   <<Offset(ptarget[1], new[1]), Offset(ptarget[2], new[2])>>)
                  /\ ppc' = "contrast"
                  /\ pout' = pout
             ELSE /\ pimg' = pimg
                  /\ ppc' = "raised"
                  /\ pout' = ProcRaised("ValueError")
  /\ psteps' = Append(psteps, "fit")
  /\ UNCHANGED <<ptarget, pfile, pmode, pfactors, pgray, pwarn, pvisits>>
  /\ UNCHANGED <<transferVars, fitVars, showVars, displayVars, buttonVars, frameVars>>

\* Lines 68-71: if contrast != 1.0, ImageEnhance.Contrast(img).enhance(contrast).
ProcContrast ==
  /\ ppc = "contrast"
  /\ IF Applies(pfactors.contrast)
       THEN /\ pimg' = EnhanceContrast(pimg, pfactors.contrast)
            /\ psteps' = Append(psteps, "contrast")
       ELSE UNCHANGED <<pimg, psteps>>
  /\ ppc' = "brightness"
  /\ UNCHANGED <<ptarget, pfile, pmode, pfactors, pgray, pwarn, pout, pvisits>>
  /\ UNCHANGED <<transferVars, fitVars, showVars, displayVars, buttonVars, frameVars>>

\* Lines 73-76: if brightness != 1.0, ImageEnhance.Brightness.
ProcBrightness ==
  /\ ppc = "brightness"
  /\ IF Applies(pfactors.brightness)
       THEN /\ pimg' = EnhanceBrightness(pimg, pfactors.brightness)
            /\ psteps' = Append(psteps, "brightness")
       ELSE UNCHANGED <<pimg, psteps>>
  /\ ppc' = "sharpness"
  /\ UNCHANGED <<ptarget, pfile, pmode, pfactors, pgray, pwarn, pout, pvisits>>
  /\ UNCHANGED <<transferVars, fitVars, showVars, displayVars, buttonVars, frameVars>>

\* Lines 78-81: if sharpness != 1.0, ImageEnhance.Sharpness.
ProcSharpness ==
  /\ ppc = "sharpness"
  /\ IF Applies(pfactors.sharpness)
       THEN /\ pimg' = EnhanceSharpness(pimg, pfactors.sharpness)
            /\ psteps' = Append(psteps, "sharpness")
       ELSE UNCHANGED <<pimg, psteps>>
  /\ ppc' = "gray"
  /\ UNCHANGED <<ptarget, pfile, pmode, pfactors, pgray, pwarn, pout, pvisits>>
  /\ UNCHANGED <<transferVars, fitVars, showVars, displayVars, buttonVars, frameVars>>

\* Line 84: img.convert('L').
ProcGray ==
  /\ ppc = "gray"
  /\ pimg' = ConvertL(pimg)
  /\ pgray' = pimg'
  /\ ppc' = "dither"
  /\ psteps' = Append(psteps, "gray")
  /\ UNCHANGED <<ptarget, pfile, pmode, pfactors, pwarn, pout, pvisits>>
  /\ UNCHANGED <<transferVars, fitVars, showVars, displayVars, buttonVars, frameVars>>

\* Line 88: _apply_dithering.
ProcDither ==
  /\ ppc = "dither"
  /\ LET r == ApplyDithering(pimg, pmode)
     IN /\ pimg' = r.image
        /\ pwarn' = pwarn \o r.warnings
  /\ pvisits' = IF pmode = "atkinson" THEN AtkinsonTrace(pimg) ELSE <<>>
  /\ ppc' = "return"
  /\ psteps' = Append(psteps, "dither")
  /\ UNCHANGED <<ptarget, pfile, pmode, pfactors, pgray, pout>>
  /\ UNCHANGED <<transferVars, fitVars, showVars, displayVars, buttonVars, frameVars>>

\* Line 92: return img.
ProcReturn ==
  /\ ppc = "return"
  /\ pout' = ProcReturned(pimg)
  /\ ppc' = "done"
  /\ UNCHANGED <<ptarget, pfile, pmode, pfactors, pgray, pimg, pwarn, psteps, pvisits>>
  /\ UNCHANGED <<transferVars, fitVars, showVars, displayVars, buttonVars, frameVars>>

(***************************************************************************)
(* Slideshow (slideshow.py).  A file of the image directory is known by    *)
(* its suffix and by the rank of its path in the order in which Python     *)
(* sorts paths.                                                            *)
(***************************************************************************)
\* The number of get_next_image calls that are counted.
MaxCalls == 5

FileNames ==
  {[rank |-> 1, suffix |-> ".jpg"], [rank |-> 2, suffix |-> ".txt"],
   [rank |-> 3, suffix |-> ".PNG"], [rank |-> 4, suffix |-> ".heic"]}
NoName == [rank |-> 0, suffix |-> "none"]

\* Line 36, and f.suffix.lower() of line 47.
ValidExtensions == {".jpg", ".jpeg", ".png", ".heic"}
Lower(suffix) == IF suffix = ".PNG" THEN ".png" ELSE suffix
Images(files) == {f \in files : Lower(f.suffix) \in ValidExtensions}

NoDir == [exists |-> FALSE, files |-> {}]
Dir(files) == [exists |-> TRUE, files |-> files]

\* A list of the files in descending order.
RECURSIVE Descending(_)
Descending(S) ==
  IF S = {} THEN <<>>
  ELSE LET f == CHOOSE f \in S : \A g \in S : g.rank <= f.rank
       IN <<f>> \o Descending(S \ {f})

\* Line 51: the list after self.image_list.sort().
RECURSIVE Sorted(_)
Sorted(S) ==
  IF S = {} THEN <<>>
  ELSE LET f == CHOOSE f \in S : \A g \in S : f.rank <= g.rank
       IN <<f>> \o Sorted(S \ {f})

ShowNone == [kind |-> "none", path |-> NoName, count |-> 0, exc |-> "none"]
ShowPath(f) == [kind |-> "path", path |-> f, count |-> 0, exc |-> "none"]
ShowReturnedNone == [kind |-> "None", path |-> NoName, count |-> 0, exc |-> "none"]
ShowCount(n) == [kind |-> "count", path |-> NoName, count |-> n, exc |-> "none"]
ShowRaised(e) == [kind |-> "raised", path |-> NoName, count |-> 0, exc |-> e]

\* The history of method calls: the last method called, the image list
\* before it, and whether the method called before it was reset().
NoCall == [op |-> "none", before |-> <<>>, afterReset |-> FALSE]
Called(o) == [op |-> o, before |-> image_list, afterReset |-> last.op = "reset"]

ShowIdle ==
  /\ image_dir = NoDir
  /\ image_list = <<>>
  /\ current_index = 0
  /\ loop = TRUE
  /\ sret = ShowNone
  /\ calls = 0
  /\ last = NoCall

\* scan_images, lines 39-55, on directory d and list l: the directory, the
\* list and the number returned.  A missing directory is created and the
\* list is left as it was.
Scan(d, l) ==
  IF ~d.exists
    THEN [image_dir |-> Dir({}), image_list |-> l, count |-> 0]
    ELSE [image_dir |-> d, image_list |-> Sorted(Images(d.files)),
          count |-> Cardinality(Images(d.files))]

\* The web uploader saves a file into the directory or deletes one, and the
\* directory itself can be removed.
AddFile(f) ==
  /\ image_dir.exists /\ f \notin image_dir.files
  /\ image_dir' = Dir(image_dir.files \cup {f})
  /\ calls' = -1
  /\ UNCHANGED <<image_list, current_index, loop, sret, last>>
  /\ UNCHANGED <<transferVars, fitVars, processVars, displayVars, buttonVars, frameVars>>

RemoveFile(f) ==
  /\ f \in image_dir.files
  /\ image_dir' = Dir(image_dir.files \ {f})
  /\ calls' = -1
  /\ UNCHANGED <<image_list, current_index, loop, sret, last>>
  /\ UNCHANGED <<transferVars, fitVars, processVars, displayVars, buttonVars, frameVars>>

RemoveDir ==
  /\ image_dir.exists
  /\ image_dir' = NoDir
  /\ calls' = -1
  /\ UNCHANGED <<image_list, current_index, loop, sret, last>>
  /\ UNCHANGED <<transferVars, fitVars, processVars, displayVars, buttonVars, frameVars>>

\* scan_images called by the user of the Slideshow.
ScanImages ==
  /\ LET r == Scan(image_dir, image_list)
     IN /\ image_dir' = r.image_dir
        /\ image_list' = r.image_list
        /\ sret' = ShowCount(r.count)
  /\ calls' = -1
  /\ last' = Called("scan")
  /\ UNCHANGED <<current_index, loop>>
  /\ UNCHANGED <<transferVars, fitVars, processVars, displayVars, buttonVars, frameVars>>

\* get_next_image, lines 67-91, on directory d, list l and cursor i of a
\* Slideshow with self.loop = lp: the directory, the list, the cursor and
\* what the call returns or raises.
NextImage(d, l, i, lp) ==
  LET first == IF l = <<>>
                 THEN Scan(d, l)
                 ELSE [image_dir |-> d, image_list |-> l, count |-> 0]
      list == first.image_list
      here == [image_dir |-> first.image_dir, image_list |-> list,
               current_index |-> i, ret |-> ShowReturnedNone]
  IN IF list = <<>>
       THEN here
     ELSE IF i >= Len(list)
       THEN [here EXCEPT !.ret = ShowRaised("IndexError")]
     ELSE IF i + 1 < Len(list)
       THEN [here EXCEPT !.current_index = i + 1, !.ret = ShowPath(list[i + 1])]
     ELSE IF lp
       THEN LET again == Scan(first.image_dir, list)
            IN [image_dir |-> again.image_dir, image_list |-> again.image_list,
                current_index |-> 0, ret |-> ShowPath(list[i + 1])]
       ELSE [here EXCEPT !.current_index = i + 1]

\* get_next_image called by the user of the Slideshow.
GetNextImage ==
  /\ calls < MaxCalls
  /\ LET r == NextImage(image_dir, image_list, current_index, loop)
     IN /\ sret' = r.ret
        /\ image_dir' = r.image_dir
        /\ image_list' = r.image_list
        /\ current_index' = r.current_index
  /\ calls' = IF calls >= 0 THEN calls + 1 ELSE calls
  /\ last' = Called("get")
  /\ UNCHANGED loop
  /\ UNCHANGED <<transferVars, fitVars, processVars, displayVars, buttonVars, frameVars>>

\* get_image_count, lines 98-100.
GetImageCount(list) == Len(list)

\* reset, lines 93-96.
Reset ==
  /\ current_index' = 0
  /\ sret' = ShowReturnedNone
  /\ calls' = -1
  /\ last' = Called("reset")
  /\ UNCHANGED <<image_dir, image_list, loop>>
  /\ UNCHANGED <<transferVars, fitVars, processVars, displayVars, buttonVars, frameVars>>

(***************************************************************************)
(* EInkDisplay (display_controller.py).  The panel's driver is hardware    *)
(* outside the program: each of its calls returns or raises.  A method of  *)
(* EInkDisplay runs to its end before the next one is called.              *)
(***************************************************************************)
\* EInkDisplay.__init__: self.width and self.height.
DisplayWidth == 400
DisplayHeight == 300

\* The calls to the driver, and the images handed to display_image: their
\* size and mode.
HwCalls == {"EPD", "init", "Clear", "getbuffer", "display", "sleep"}
ImageSizes == {<<400, 300>>, <<300, 400>>, <<4, 3>>, <<400, 299>>}
ImageModes == {"1", "L", "RGB"}
NoPicture == [size |-> NoSize, mode |-> "none"]

\* A call made to the driver: its name, self.initialized when it was made,
\* and the picture in the buffer passed, if any.
Hw(call, ready, picture) == [call |-> call, ready |-> ready, picture |-> picture]

\* What a method of EInkDisplay did: the method, its argument,
\* self.initialized when it was called, the calls it made to the driver, the
\* lines it logged, and the exception it raised, if any.
NoDisplayCall ==
  [op |-> "none", picture |-> NoPicture, wasReady |-> FALSE, hw |-> <<>>,
   logs |-> <<>>, exc |-> "none"]

DisplayIdle ==
  /\ epd = FALSE
  /\ initialized = FALSE
  /\ dlast = NoDisplayCall

\* A size test that lets every picture through.
SizeMatchesAny(size) == TRUE

\* Line 79: pil_image.size != (self.width, self.height).
SizeMatches(size) == size = <<DisplayWidth, DisplayHeight>>

\* init, lines 34-45, with self.epd = e and self.initialized = i; fail is
\* the driver call that raises, if it is reached.
RunInit(e, i, fail) ==
  IF ~e /\ fail = "EPD"
    THEN [epd |-> FALSE, initialized |-> i, ok |-> FALSE,
          hw |-> <<Hw("EPD", i, NoPicture)>>,
          logs |-> <<"error: Failed to initialize display">>, exc |-> "EPD"]
  ELSE IF fail = "init"
    THEN [epd |-> TRUE, initialized |-> i, ok |-> FALSE,
          hw |-> (IF e THEN <<>> ELSE <<Hw("EPD", i, NoPicture)>>)
                   \o <<Hw("init", i, NoPicture)>>,
          logs |-> <<"info: Initializing e-paper display...",
                     "error: Failed to initialize display">>, exc |-> "init"]
  ELSE [epd |-> TRUE, initialized |-> TRUE, ok |-> TRUE,
        hw |-> (IF e THEN <<>> ELSE <<Hw("EPD", i, NoPicture)>>)
                 \o <<Hw("init", i, NoPicture)>>,
        logs |-> <<"info: Initializing e-paper display...",
                   "info: Display initialized successfully">>, exc |-> "none"]

\* A method that goes on without looking at self.initialized.
EnsureInitNever(e, i, fail) ==
  [epd |-> e, initialized |-> i, ok |-> TRUE, hw |-> <<>>, logs |-> <<>>,
   exc |-> "none"]

\* Lines 53-55 and 74-76: init is called when self.initialized is false.
EnsureInit(e, i, fail) ==
  IF i
    THEN [epd |-> e, initialized |-> i, ok |-> TRUE, hw |-> <<>>, logs |-> <<>>,
          exc |-> "none"]
    ELSE LET r == RunInit(e, i, fail)
         IN [r EXCEPT !.logs = <<"warning: Display not initialized, initializing now...">> \o @]

\* init called by the user of the display.
DisplayInit(fail) ==
  /\ LET r == RunInit(epd, initialized, fail)
     IN /\ epd' = r.epd
        /\ initialized' = r.initialized
        /\ dlast' = [op |-> "init", picture |-> NoPicture, wasReady |-> initialized,
                     hw |-> r.hw, logs |-> r.logs, exc |-> r.exc]
  /\ UNCHANGED <<transferVars, fitVars, processVars, showVars, buttonVars, frameVars>>

\* clear, lines 51-63.
DisplayClear(fail) ==
  /\ LET r == EnsureInit(epd, initialized, fail)
         done == [op |-> "clear", picture |-> NoPicture, wasReady |-> initialized,
                  hw |-> r.hw, logs |-> r.logs, exc |-> r.exc]
     IN /\ epd' = r.epd
        /\ initialized' = r.initialized
        /\ dlast' =
             IF ~r.ok
               THEN [done EXCEPT !.logs = @ \o <<"error: Failed to clear display">>]
             ELSE IF fail = "Clear"
               THEN [done EXCEPT
                       !.hw = @ \o <<Hw("Clear", r.initialized, NoPicture)>>,
                       !.logs = @ \o <<"info: Clearing display...",
                                       "error: Failed to clear display">>,
                       !.exc = "Clear"]
             ELSE [done EXCEPT
                     !.hw = @ \o <<Hw("Clear", r.initialized, NoPicture)>>,
                     !.logs = @ \o <<"info: Clearing display...", "info: Display cleared">>]
  /\ UNCHANGED <<transferVars, fitVars, processVars, showVars, buttonVars, frameVars>>

\* display_image, lines 72-102.  A picture not in mode 1 is converted (line
\* 92); getbuffer packs the picture; display sends the buffer.
DisplayImage(picture, fail) ==
  /\ LET r == EnsureInit(epd, initialized, fail)
         converted == [picture EXCEPT !.mode = "1"]
         done == [op |-> "display_image", picture |-> picture, wasReady |-> initialized,
                  hw |-> r.hw, logs |-> r.logs, exc |-> r.exc]
         withError(d) == [d EXCEPT !.logs = @ \o <<"error: Failed to display image">>]
     IN /\ epd' = r.epd
        /\ initialized' = r.initialized
        /\ dlast' =
             IF ~r.ok
               THEN withError(done)
             ELSE IF ~SizeMatches(picture.size)
               THEN withError([done EXCEPT
                              !.logs = @ \o <<"warning: Image size doesn't match display size">>,
                              !.exc = "ValueError"])
             ELSE IF fail = "getbuffer"
               THEN withError([done EXCEPT
                              !.hw = @ \o <<Hw("getbuffer", r.initialized, converted)>>,
                              !.exc = "getbuffer"])
             ELSE IF fail = "display"
               THEN withError([done EXCEPT
                              !.hw = @ \o <<Hw("getbuffer", r.initialized, converted),
                                            Hw("display", r.initialized, converted)>>,
                              !.exc = "display"])
             ELSE [done EXCEPT
                     !.hw = @ \o <<Hw("getbuffer", r.initialized, converted),
                                   Hw("display", r.initialized, converted)>>,
                     !.logs = @ \o <<"info: Image displayed successfully">>]
  /\ UNCHANGED <<transferVars, fitVars, processVars, showVars, buttonVars, frameVars>>

\* sleep, lines 108-119.
DisplaySleep(fail) ==
  /\ LET done == [op |-> "sleep", picture |-> NoPicture, wasReady |-> initialized,
                  hw |-> <<>>, logs |-> <<>>, exc |-> "none"]
     IN IF epd /\ initialized
          THEN IF fail = "sleep"
                 THEN /\ initialized' = initialized
                      /\ dlast' = [done EXCEPT
                                     !.hw = <<Hw("sleep", initialized, NoPicture)>>,
                                     !.logs = <<"info: Putting display to sleep...",
                                                "error: Failed to sleep display">>,
                                     !.exc = "sleep"]
                 ELSE /\ initialized' = FALSE
                      /\ dlast' = [done EXCEPT
                                     !.hw = <<Hw("sleep", initialized, NoPicture)>>,
                                     !.logs = <<"info: Putting display to sleep...",
                                                "info: Display is now sleeping">>]
          ELSE /\ initialized' = initialized
               /\ dlast' = [done EXCEPT
                              !.logs = <<"warning: Display not initialized, nothing to sleep">>]
  /\ epd' = epd
  /\ UNCHANGED <<transferVars, fitVars, processVars, showVars, buttonVars, frameVars>>

(***************************************************************************)
(* ButtonHandler (button_handler.py).  RPi.GPIO calls _button_callback     *)
(* from its callback thread, one call after the other, for every edge it   *)
(* detects while the event detection of setup is registered.  Times are    *)
(* counted in milliseconds, and time.time() does not run backwards.        *)
(***************************************************************************)
\* The largest debounce time, the time the clock runs for, and the number
\* of edges delivered.
MaxDebounce == 2
MaxClock == 4
MaxPresses == 4

\* time.time() when the ButtonHandler is constructed: later than the epoch
\* by more than any debounce time.
StartTime == MaxDebounce

\* The GPIO calls of setup and cleanup that can raise.
GpioCalls == {"setup", "add_event_detect", "remove_event_detect"}

ButtonIdle ==
  /\ debounce_ms = 0
  /\ callback = FALSE
  /\ last_press_time = 0
  /\ button_initialized = FALSE
  /\ clock = 0
  /\ presses = <<>>

\* A test that lets every press through.
DebouncedNever(current_time, stamp, ms) == FALSE

\* Line 85: current_time - self.last_press_time < self.debounce_ms / 1000.0,
\* with the two times in milliseconds.
Debounced(current_time, stamp, ms) == current_time - stamp < ms

\* setup, lines 40-75: the callback is stored (line 62) before the event
\* detection is registered (lines 63-68); fail is the GPIO call that raises.
ButtonSetup(fail) ==
  /\ ~button_initialized
  /\ callback' = (callback \/ fail # "setup")
  /\ button_initialized' = (fail \notin {"setup", "add_event_detect"})
  /\ UNCHANGED <<debounce_ms, last_press_time, clock, presses>>
  /\ UNCHANGED <<transferVars, fitVars, processVars, showVars, displayVars, frameVars>>

\* Time passes.
ButtonTick ==
  /\ clock < StartTime + MaxClock
  /\ clock' = clock + 1
  /\ UNCHANGED <<debounce_ms, callback, last_press_time, button_initialized, presses>>
  /\ UNCHANGED <<transferVars, fitVars, processVars, showVars, displayVars, frameVars>>

\* _button_callback, lines 82-94, called for an edge.
ButtonCallback ==
  /\ button_initialized
  /\ Len(presses) < MaxPresses
  /\ IF Debounced(clock, last_press_time, debounce_ms)
       THEN /\ presses' = Append(presses, [at |-> clock, invoked |-> FALSE,
                                           before |-> last_press_time,
                                           after |-> last_press_time])
            /\ UNCHANGED last_press_time
       ELSE /\ last_press_time' = clock
            /\ presses' = Append(presses, [at |-> clock, invoked |-> callback,
                                           before |-> last_press_time,
                                           after |-> clock])
  /\ UNCHANGED <<debounce_ms, callback, button_initialized, clock>>
  /\ UNCHANGED <<transferVars, fitVars, processVars, showVars, displayVars, frameVars>>

\* cleanup, lines 98-105: an exception of GPIO is logged and swallowed.
ButtonCleanup(fail) ==
  /\ button_initialized' = (button_initialized /\ fail = "remove_event_detect")
  /\ UNCHANGED <<debounce_ms, callback, last_press_time, clock, presses>>
  /\ UNCHANGED <<transferVars, fitVars, processVars, showVars, displayVars, frameVars>>

(***************************************************************************)
(* PictureFrame (main.py).  The main thread runs start, _run_slideshow and *)
(* shutdown statement by statement.  A SIGINT or SIGTERM makes the         *)
(* interpreter run _signal_handler in the main thread between two of its   *)
(* statements, also between two statements of a handler that is running;   *)
(* the handler ends in sys.exit, so what it interrupted never goes on.     *)
(* _button_pressed is the callback of the ButtonHandler and runs in the    *)
(* GPIO callback thread.  get_processed_image is modelled by the           *)
(* specifications above; here it returns an image or raises.               *)
(***************************************************************************)
\* The largest interval_seconds and the number of signals received.
MaxInterval == 2
MaxSignals == 2

\* config['startup'] and config['display']['interval_seconds'].
Configs == [clear_display_on_start : BOOLEAN, preprocess_on_start : BOOLEAN]
NoConfig == [clear_display_on_start |-> FALSE, preprocess_on_start |-> FALSE]
Intervals == 1..MaxInterval

\* The directories of the queue the frame is started on.
FrameDirs ==
  {NoDir} \cup {Dir(files) : files \in SUBSET {f \in FileNames : f.rank <= 3}}

\* A call made to the panel's driver: init or sleep, and whether it returned.
PanelCall(call, ok) == [call |-> call, ok |-> ok]

FrameIdle ==
  /\ config = NoConfig
  /\ interval = 0
  /\ running = FALSE
  /\ skip_to_next = FALSE
  /\ mpc = "idle"
  /\ hpc = "none"
  /\ caller = "none"
  /\ waited = 0
  /\ signals = 0
  /\ panel = <<>>
  /\ unserved = FALSE
  /\ erred = FALSE
  /\ lastlog = "none"

\* The statement that runs next is at position l: a statement of the
\* handler when one runs, of start otherwise.
At(l) == IF hpc = "none" THEN mpc = l ELSE hpc = l
Go(l) == IF hpc = "none" THEN mpc' = l /\ hpc' = hpc ELSE hpc' = l /\ mpc' = mpc
InMain(l) == hpc = "none" /\ mpc = l
Exited == hpc = "exited" \/ mpc = "returned"

\* An except clause that leaves the loop.
AfterErrorBreak == "shutdown"

\* Lines 197-200: the except clause of the loop logs, sleeps and goes on.
AfterError == "retry"

\* A sleep that never finds the display initialized.
SleepNeededNever(e, i) == FALSE

\* display_controller.py line 109: self.epd and self.initialized.
SleepNeeded(e, i) == e /\ i

\* Line 119 and display_controller.py lines 36-39: the driver object is
\* made and epd.init() is called; fail is the driver call that raises, which
\* line 153 catches.
FrameInit(fail) ==
  /\ InMain("init")
  /\ IF ~epd /\ fail = "EPD"
       THEN /\ mpc' = "shutdown"
            /\ UNCHANGED <<epd, panel>>
       ELSE /\ epd' = TRUE
            /\ panel' = Append(panel, PanelCall("init", fail # "init"))
            /\ mpc' = IF fail = "init" THEN "shutdown" ELSE "init_flag"
  /\ UNCHANGED <<initialized, dlast>>
  /\ UNCHANGED <<config, interval, running, skip_to_next, hpc, caller, waited,
                 signals, unserved, erred, lastlog>>
  /\ UNCHANGED <<transferVars, fitVars, processVars, showVars, buttonVars>>

\* display_controller.py line 40: self.initialized = True.
FrameInitFlag ==
  /\ InMain("init_flag")
  /\ initialized' = TRUE
  /\ mpc' = IF config.clear_display_on_start THEN "clear" ELSE "scan"
  /\ UNCHANGED <<epd, dlast>>
  /\ UNCHANGED <<config, interval, running, skip_to_next, hpc, caller, waited,
                 signals, panel, unserved, erred, lastlog>>
  /\ UNCHANGED <<transferVars, fitVars, processVars, showVars, buttonVars>>

\* Lines 121-123: self.display.clear(), whose epd.Clear() can raise.  The
\* display is initialized here: only sleep clears self.initialized, and
\* start calls nothing of the display after a sleep.
FrameClear(fail) ==
  /\ InMain("clear")
  /\ mpc' = IF fail = "Clear" THEN "shutdown" ELSE "scan"
  /\ UNCHANGED <<config, interval, running, skip_to_next, hpc, caller, waited,
                 signals, panel, unserved, erred, lastlog>>
  /\ UNCHANGED <<transferVars, fitVars, processVars, showVars, displayVars, buttonVars>>

\* Lines 131-137: scan_images; without images start puts the display to
\* sleep and returns.
FrameScan ==
  /\ InMain("scan")
  /\ LET r == Scan(image_dir, image_list)
     IN /\ image_dir' = r.image_dir
        /\ image_list' = r.image_list
        /\ sret' = ShowCount(r.count)
        /\ mpc' = IF r.count = 0 THEN "sleep"
                  ELSE IF config.preprocess_on_start THEN "preprocess"
                  ELSE "run"
        /\ caller' = IF r.count = 0 THEN "start" ELSE caller
  /\ UNCHANGED <<current_index, loop, calls, last>>
  /\ UNCHANGED <<config, interval, running, skip_to_next, hpc, waited,
                 signals, panel, unserved, erred, lastlog>>
  /\ UNCHANGED <<transferVars, fitVars, processVars, displayVars, buttonVars>>

\* n calls of get_next_image from the state st of the Slideshow.
RECURSIVE Advance(_, _)
Advance(n, st) ==
  IF n = 0 THEN st
  ELSE Advance(n - 1, NextImage(st.image_dir, st.image_list, st.current_index, loop))

\* Lines 140-147: image_count calls of get_next_image, reset, and
\* preprocess_all, which returns whatever happens to the items.  An
\* IndexError of get_next_image is caught at line 153.
FramePreprocess ==
  /\ InMain("preprocess")
  /\ LET st == Advance(sret.count,
                       [image_dir |-> image_dir, image_list |-> image_list,
                        current_index |-> current_index, ret |-> ShowNone])
     IN /\ image_dir' = st.image_dir
        /\ image_list' = st.image_list
        /\ current_index' = IF st.ret.kind = "raised" THEN st.current_index ELSE 0
        /\ sret' = IF st.ret.kind = "raised" THEN st.ret ELSE ShowReturnedNone
        /\ mpc' = IF st.ret.kind = "raised" THEN "shutdown" ELSE "run"
  /\ UNCHANGED <<loop, calls, last>>
  /\ UNCHANGED <<config, interval, running, skip_to_next, hpc, caller, waited,
                 signals, panel, unserved, erred, lastlog>>
  /\ UNCHANGED <<transferVars, fitVars, processVars, displayVars, buttonVars>>

\* Line 150: self.running = True.
FrameRun ==
  /\ InMain("run")
  /\ running' = TRUE
  /\ mpc' = "loop"
  /\ UNCHANGED <<config, interval, skip_to_next, hpc, caller, waited,
                 signals, panel, unserved, erred, lastlog>>
  /\ UNCHANGED <<transferVars, fitVars, processVars, showVars, displayVars, buttonVars>>

\* Line 163: while self.running.
FrameLoop ==
  /\ InMain("loop")
  /\ mpc' = IF running THEN "get" ELSE "shutdown"
  /\ UNCHANGED <<config, interval, running, skip_to_next, hpc, caller, waited,
                 signals, panel, unserved, erred, lastlog>>
  /\ UNCHANGED <<transferVars, fitVars, processVars, showVars, displayVars, buttonVars>>

\* Lines 166-172: get_next_image; without a path the loop is left.
FrameGet ==
  /\ InMain("get")
  /\ LET r == NextImage(image_dir, image_list, current_index, loop)
     IN /\ image_dir' = r.image_dir
        /\ image_list' = r.image_list
        /\ current_index' = r.current_index
        /\ sret' = r.ret
        /\ mpc' = IF r.ret.kind = "path" THEN "process"
                  ELSE IF r.ret.kind = "None" THEN "shutdown"
                  ELSE AfterError
        /\ lastlog' = IF r.ret.kind = "path" THEN "info: Displaying"
                      ELSE IF r.ret.kind = "None" THEN "warning: No more images, stopping"
                      ELSE "error: Error in slideshow loop"
        /\ erred' = (erred \/ r.ret.kind = "raised")
  /\ UNCHANGED <<loop, calls, last>>
  /\ UNCHANGED <<config, interval, running, skip_to_next, hpc, caller, waited,
                 signals, panel, unserved>>
  /\ UNCHANGED <<transferVars, fitVars, processVars, displayVars, buttonVars>>

\* Line 175: get_processed_image returns the image or raises.
FrameProcess(ok) ==
  /\ InMain("process")
  /\ mpc' = IF ok THEN "display" ELSE AfterError
  /\ lastlog' = IF ok THEN lastlog ELSE "error: Error in slideshow loop"
  /\ erred' = (erred \/ ~ok)
  /\ UNCHANGED <<config, interval, running, skip_to_next, hpc, caller, waited,
                 signals, panel, unserved>>
  /\ UNCHANGED <<transferVars, fitVars, processVars, showVars, displayVars, buttonVars>>

\* Lines 178-181: display_image, whose driver calls can raise.
FrameDisplay(fail) ==
  /\ InMain("display")
  /\ mpc' = IF fail = "none" THEN "reset_skip" ELSE AfterError
  /\ lastlog' = IF fail = "none" THEN "info: Waiting until next image"
                ELSE "error: Error in slideshow loop"
  /\ erred' = (erred \/ fail # "none")
  /\ UNCHANGED <<config, interval, running, skip_to_next, hpc, caller, waited,
                 signals, panel, unserved>>
  /\ UNCHANGED <<transferVars, fitVars, processVars, showVars, displayVars, buttonVars>>

\* Line 184: self.skip_to_next = False.
FrameResetSkip ==
  /\ InMain("reset_skip")
  /\ skip_to_next' = FALSE
  /\ waited' = 0
  /\ mpc' = "wait"
  /\ UNCHANGED <<config, interval, running, hpc, caller, signals, panel,
                 unserved, erred, lastlog>>
  /\ UNCHANGED <<transferVars, fitVars, processVars, showVars, displayVars, buttonVars>>

\* Lines 187-192: one turn of the wait loop: it ends after self.interval
\* sleeps, or breaks when running is off or skip_to_next is on.
FrameWait ==
  /\ InMain("wait")
  /\ IF waited < interval /\ running /\ ~skip_to_next
       THEN /\ waited' = waited + 1
            /\ UNCHANGED <<mpc, unserved, lastlog>>
       ELSE /\ mpc' = "loop"
            /\ unserved' = FALSE
            /\ lastlog' = IF waited < interval /\ skip_to_next
                            THEN "info: Skipping to next image..."
                            ELSE lastlog
            /\ UNCHANGED waited
  /\ UNCHANGED <<config, interval, running, skip_to_next, hpc, caller,
                 signals, panel, erred>>
  /\ UNCHANGED <<transferVars, fitVars, processVars, showVars, displayVars, buttonVars>>

\* Lines 199-200: the retry delay, after which the loop tests self.running.
FrameRetry ==
  /\ InMain("retry")
  /\ mpc' = "loop"
  /\ lastlog' = "info: Waiting 10 seconds before retry..."
  /\ UNCHANGED <<config, interval, running, skip_to_next, hpc, caller, waited,
                 signals, panel, unserved, erred>>
  /\ UNCHANGED <<transferVars, fitVars, processVars, showVars, displayVars, buttonVars>>

\* shutdown, line 207: self.running = False.
ShutdownRunning ==
  /\ At("shutdown")
  /\ running' = FALSE
  /\ Go("cleanup")
  /\ caller' = IF hpc = "none" THEN "shutdown" ELSE caller
  /\ UNCHANGED <<config, interval, skip_to_next, waited, signals, panel,
                 unserved, erred, lastlog>>
  /\ UNCHANGED <<transferVars, fitVars, processVars, showVars, displayVars, buttonVars>>

\* shutdown, lines 209-213: self.button.cleanup().
ShutdownCleanup ==
  /\ At("cleanup")
  /\ button_initialized' = FALSE
  /\ Go("sleep")
  /\ UNCHANGED <<debounce_ms, callback, last_press_time, clock, presses>>
  /\ UNCHANGED <<config, interval, running, skip_to_next, caller, waited,
                 signals, panel, unserved, erred, lastlog>>
  /\ UNCHANGED <<transferVars, fitVars, processVars, showVars, displayVars>>

\* display.sleep returns or raises to the one that called it.  Called from
\* shutdown, shutdown ends either way (lines 215-223): the handler goes on
\* to sys.exit (line 229), start returns.  Called from start (line 136), it
\* returns to line 137, and an exception goes to line 153 and to shutdown.
SleepEnds(raised) ==
  IF hpc # "none" THEN Go("exited")
  ELSE IF raised /\ caller = "start" THEN Go("shutdown")
  ELSE Go("returned")

\* display_controller.py line 109: the test of sleep.
SleepTest ==
  /\ At("sleep")
  /\ IF SleepNeeded(epd, initialized) THEN Go("sleep_hw") ELSE SleepEnds(FALSE)
  /\ UNCHANGED <<config, interval, running, skip_to_next, caller, waited,
                 signals, panel, unserved, erred, lastlog>>
  /\ UNCHANGED <<transferVars, fitVars, processVars, showVars, displayVars, buttonVars>>

\* display_controller.py line 111: self.epd.sleep(), which returns or
\* raises.
SleepHw(ok) ==
  /\ At("sleep_hw")
  /\ panel' = Append(panel, PanelCall("sleep", ok))
  /\ IF ok THEN Go("sleep_flag") ELSE SleepEnds(TRUE)
  /\ UNCHANGED <<config, interval, running, skip_to_next, caller, waited,
                 signals, unserved, erred, lastlog>>
  /\ UNCHANGED <<transferVars, fitVars, processVars, showVars, displayVars, buttonVars>>

\* display_controller.py line 112: self.initialized = False.
SleepFlag ==
  /\ At("sleep_flag")
  /\ initialized' = FALSE
  /\ SleepEnds(FALSE)
  /\ UNCHANGED <<epd, dlast>>
  /\ UNCHANGED <<config, interval, running, skip_to_next, caller, waited,
                 signals, panel, unserved, erred, lastlog>>
  /\ UNCHANGED <<transferVars, fitVars, processVars, showVars, buttonVars>>

\* _signal_handler, lines 225-229: a signal arrives and the handler begins
\* with shutdown.
Signal ==
  /\ mpc # "idle" /\ ~Exited
  /\ signals < MaxSignals
  /\ signals' = signals + 1
  /\ hpc' = "shutdown"
  /\ UNCHANGED <<config, interval, running, skip_to_next, mpc, caller, waited,
                 panel, unserved, erred, lastlog>>
  /\ UNCHANGED <<transferVars, fitVars, processVars, showVars, displayVars, buttonVars>>

\* _button_pressed, lines 109-112, called for a press of the button.  start
\* leaves the registration of this callback commented out (line 127); the
\* presses here are those that reach _button_pressed once it is registered.
ButtonPressed ==
  /\ mpc # "idle" /\ ~Exited
  /\ skip_to_next' = TRUE
  /\ unserved' = TRUE
  /\ UNCHANGED <<config, interval, running, mpc, hpc, caller, waited, signals,
                 panel, erred, lastlog>>
  /\ UNCHANGED <<transferVars, fitVars, processVars, showVars, displayVars, buttonVars>>

(***************************************************************************)
(* The specifications                                                      *)
(***************************************************************************)
Init == InitTransfer /\ FitIdle /\ ProcessIdle /\ ShowIdle /\ DisplayIdle /\ ButtonIdle /\ FrameIdle

\* The picture frame's thread calls get_processed_image and clear_cache one
\* after the other, while the clock runs and the web uploader changes the
\* queue.
Next ==
  \/ /\ Tick
     /\ UNCHANGED <<fitVars, processVars, showVars, displayVars, buttonVars, frameVars>>
  \/ /\ \E p \in QueuePaths, c \in Contents : Upload(p, c)
     /\ UNCHANGED <<fitVars, processVars, showVars, displayVars, buttonVars, frameVars>>
  \/ /\ \E p \in QueuePaths : Delete(p)
     /\ UNCHANGED <<fitVars, processVars, showVars, displayVars, buttonVars, frameVars>>
  \/ /\ \E t \in Main, p \in Paths : Call(t, p)
     /\ UNCHANGED <<fitVars, processVars, showVars, displayVars, buttonVars, frameVars>>
  \/ /\ \E t \in Main : Step(t)
     /\ UNCHANGED <<fitVars, processVars, showVars, displayVars, buttonVars, frameVars>>
  \/ /\ \E t \in Main : ClearCache(t)
     /\ UNCHANGED <<fitVars, processVars, showVars, displayVars, buttonVars, frameVars>>
  \/ /\ \E t \in Main : Finish(t)
     /\ UNCHANGED <<fitVars, processVars, showVars, displayVars, buttonVars, frameVars>>

Spec == Init /\ [][Next]_vars

\* The picture frame's thread calls preprocess_all, while the web uploader
\* changes the queue.
NextBatch ==
  \/ /\ \E p \in QueuePaths, c \in Contents : Upload(p, c)
     /\ UNCHANGED <<fitVars, processVars, showVars, displayVars, buttonVars, frameVars>>
  \/ /\ \E p \in QueuePaths : Delete(p)
     /\ UNCHANGED <<fitVars, processVars, showVars, displayVars, buttonVars, frameVars>>
  \/ /\ \E t \in Main, paths \in BatchLists : CallBatch(t, paths)
     /\ UNCHANGED <<fitVars, processVars, showVars, displayVars, buttonVars, frameVars>>
  \/ /\ \E t \in Main : BatchIter(t)
     /\ UNCHANGED <<fitVars, processVars, showVars, displayVars, buttonVars, frameVars>>
  \/ /\ \E t \in Main : Step(t)
     /\ UNCHANGED <<fitVars, processVars, showVars, displayVars, buttonVars, frameVars>>
  \/ /\ \E t \in Main : BatchAfter(t)
     /\ UNCHANGED <<fitVars, processVars, showVars, displayVars, buttonVars, frameVars>>
  \/ /\ \E t \in Main : FinishBatch(t)
     /\ UNCHANGED <<fitVars, processVars, showVars, displayVars, buttonVars, frameVars>>

SpecBatch == Init /\ [][NextBatch]_vars

\* Two workers call get_processed_image concurrently, over sources that do
\* not change meanwhile.  They start from a processed directory left by
\* earlier requests: each cache file is absent or the PNG of the first
\* picture; each queue file is older or newer than that, and is a picture or
\* not.
InitConc ==
  /\ now = MaxTime
  /\ src \in [Paths -> [present : {TRUE}, mtime : {0, MaxTime}, content : {"pic2", "garbage"}]]
  /\ src[PathBX] = [present |-> TRUE, mtime |-> 0, content |-> "pic2"]
  /\ src[PathAX].content = "pic2"
  /\ src[PathAY].mtime = MaxTime
  /\ cache \in [Keys -> {NoFile, EncodePNG(ProcessImage("pic1", Settings), 0)}]
  /\ op = [t \in Threads |-> "idle"]
  /\ pc = [t \in Threads |-> "idle"]
  /\ arg = [t \in Threads |-> NonePath]
  /\ sm = [t \in Threads |-> -1]
  /\ img = [t \in Threads |-> NoBitmap]
  /\ created = [t \in Threads |-> FALSE]
  /\ ret = [t \in Threads |-> NoResult]
  /\ batch = [t \in Threads |-> <<>>]
  /\ bi = [t \in Threads |-> 1]
  /\ logged = [t \in Threads |-> <<>>]
  /\ ran = [t \in Threads |-> 0]
  /\ snap = [t \in Threads |-> NoFile]
  /\ touched = [t \in Threads |-> {}]
  /\ attempted = [t \in Threads |-> <<>>]
  /\ failed = [t \in Threads |-> {}]
  /\ prev = NoPrev
  /\ dirty = [t \in Threads |-> FALSE]
  /\ shared = [t \in Threads |-> FALSE]
  /\ FitIdle /\ ProcessIdle /\ ShowIdle /\ DisplayIdle /\ ButtonIdle /\ FrameIdle

NextConc ==
  \/ /\ \E t \in Workers, p \in Paths : Call(t, p)
     /\ UNCHANGED <<fitVars, processVars, showVars, displayVars, buttonVars, frameVars>>
  \/ /\ \E t \in Workers : Step(t)
     /\ UNCHANGED <<fitVars, processVars, showVars, displayVars, buttonVars, frameVars>>
  \/ /\ \E t \in Workers : Finish(t)
     /\ UNCHANGED <<fitVars, processVars, showVars, displayVars, buttonVars, frameVars>>

SpecConc == InitConc /\ [][NextConc]_vars

\* _resize_maintain_aspect is called once, on a source and with an
\* ImageProcessor of any of the sizes enumerated.
InitFit ==
  /\ InitTransfer /\ ProcessIdle /\ ShowIdle /\ DisplayIdle /\ ButtonIdle /\ FrameIdle
  /\ fpc = "ratios"
  /\ fsrc \in SrcSizes
  /\ ftarget \in Targets
  /\ fnew = NoSize
  /\ fout = FitNone

NextFit ==
  \/ FitRatios
  \/ FitSize
  \/ FitResize
  \/ FitNew
  \/ FitPaste

SpecFit == InitFit /\ [][NextFit]_vars

\* process_image is called once, with any of the multipliers and any dither
\* mode, by an ImageProcessor of a small target size, on a file that is
\* missing, holds a picture of the target's size, or holds a sliver.
InitProcess ==
  /\ InitTransfer /\ FitIdle /\ ShowIdle /\ DisplayIdle /\ ButtonIdle /\ FrameIdle
  /\ ppc = "open"
  /\ ptarget \in (1..MaxW) \X (1..MaxH)
  /\ pfile \in SourceImages(ptarget[1], ptarget[2]) \cup {NoImage, Sliver(ptarget[1])}
  /\ pmode \in DitherModes \cup OtherModes
  /\ pfactors \in [contrast : Contrasts, brightness : Brightnesses,
                    sharpness : Sharpnesses]
  /\ psteps = <<>>
  /\ pvisits = <<>>
  /\ pgray = NoImage
  /\ pimg = NoImage
  /\ pwarn = <<>>
  /\ pout = ProcNone

NextProcess ==
  \/ ProcOpen
  \/ ProcFit
  \/ ProcContrast
  \/ ProcBrightness
  \/ ProcSharpness
  \/ ProcGray
  \/ ProcDither
  \/ ProcReturn

SpecProcess == InitProcess /\ [][NextProcess]_vars

\* A Slideshow is constructed on a directory that is missing or holds any of
\* the files, with loop on or off; its methods are called in any order while
\* files come and go.
InitShow ==
  /\ InitTransfer /\ FitIdle /\ ProcessIdle /\ DisplayIdle /\ ButtonIdle /\ FrameIdle
  /\ image_dir \in {NoDir} \cup {Dir(files) : files \in SUBSET FileNames}
  /\ image_list = <<>>
  /\ current_index = 0
  /\ loop \in BOOLEAN
  /\ sret = ShowNone
  /\ calls = 0
  /\ last = NoCall

NextShow ==
  \/ \E f \in FileNames : AddFile(f)
  \/ \E f \in FileNames : RemoveFile(f)
  \/ RemoveDir
  \/ ScanImages
  \/ GetNextImage
  \/ Reset

SpecShow == InitShow /\ [][NextShow]_vars

\* The methods of a new EInkDisplay are called in any order, with any
\* picture, and any one call to the driver may raise.
InitDisplay ==
  /\ InitTransfer /\ FitIdle /\ ProcessIdle /\ ShowIdle /\ ButtonIdle /\ FrameIdle
  /\ epd = FALSE
  /\ initialized = FALSE
  /\ dlast = NoDisplayCall

NextDisplay ==
  \/ \E fail \in HwCalls \cup {"none"} : DisplayInit(fail)
  \/ \E fail \in HwCalls \cup {"none"} : DisplayClear(fail)
  \/ \E size \in ImageSizes, mode \in ImageModes, fail \in HwCalls \cup {"none"} :
       DisplayImage([size |-> size, mode |-> mode], fail)
  \/ \E fail \in HwCalls \cup {"none"} : DisplaySleep(fail)

SpecDisplay == InitDisplay /\ [][NextDisplay]_vars

\* A ButtonHandler is constructed with any debounce time; setup and cleanup
\* are called, time passes and edges arrive.
InitButton ==
  /\ InitTransfer /\ FitIdle /\ ProcessIdle /\ ShowIdle /\ DisplayIdle /\ FrameIdle
  /\ debounce_ms \in 0..MaxDebounce
  /\ callback = FALSE
  /\ last_press_time = 0
  /\ button_initialized = FALSE
  /\ clock = StartTime
  /\ presses = <<>>

NextButton ==
  \/ \E fail \in GpioCalls \cup {"none"} : ButtonSetup(fail)
  \/ ButtonTick
  \/ ButtonCallback
  \/ \E fail \in GpioCalls \cup {"none"} : ButtonCleanup(fail)

SpecButton == InitButton /\ [][NextButton]_vars

\* A PictureFrame is constructed on a queue directory with any startup
\* options, and start is called; signals and button presses arrive at any
\* moment.
InitFrame ==
  /\ InitTransfer /\ FitIdle /\ ProcessIdle /\ DisplayIdle /\ ButtonIdle
  /\ image_dir \in FrameDirs
  /\ image_list = <<>>
  /\ current_index = 0
  /\ loop \in BOOLEAN
  /\ sret = ShowNone
  /\ calls = 0
  /\ last = NoCall
  /\ config \in Configs
  /\ interval \in Intervals
  /\ running = FALSE
  /\ skip_to_next = FALSE
  /\ mpc = "init"
  /\ hpc = "none"
  /\ caller = "none"
  /\ waited = 0
  /\ signals = 0
  /\ panel = <<>>
  /\ unserved = FALSE
  /\ erred = FALSE
  /\ lastlog = "none"

NextFrame ==
  \/ \E fail \in {"none", "EPD", "init"} : FrameInit(fail)
  \/ FrameInitFlag
  \/ \E fail \in {"none", "Clear"} : FrameClear(fail)
  \/ FrameScan
  \/ FramePreprocess
  \/ FrameRun
  \/ FrameLoop
  \/ FrameGet
  \/ \E ok \in BOOLEAN : FrameProcess(ok)
  \/ \E fail \in {"none", "getbuffer", "display"} : FrameDisplay(fail)
  \/ FrameResetSkip
  \/ FrameWait
  \/ FrameRetry
  \/ ShutdownRunning
  \/ ShutdownCleanup
  \/ SleepTest
  \/ \E ok \in BOOLEAN : SleepHw(ok)
  \/ SleepFlag
  \/ Signal
  \/ ButtonPressed

SpecFrame == InitFrame /\ [][NextFrame]_vars

(***************************************************************************)
(* Properties                                                              *)
(***************************************************************************)
Done(t) == op[t] = "get" /\ pc[t] \in {"returned", "raised"}
FromCache(t) == Done(t) /\ ret[t].kind = "image" /\ ran[t] = 0

\* C1: when the picture frame's thread requests a source twice in a row and
\* the source is not modified from the start of the first request on, the
\* second request returns the bitmap the first returned and does not call
\* process_image.
C1_SecondRequestFromCache ==
  \A t \in Main :
    (Done(t) /\ prev.op = "get" /\ prev.path = arg[t])
      => /\ ret[t] = Returned(prev.bitmap)
         /\ ran[t] = 0

C1_Witness ==
  \E t \in Main :
    /\ FromCache(t) /\ prev.op = "get" /\ prev.path = arg[t]
    /\ ret[t].bitmap = ProcessImage("pic2", Settings)

\* C2: a request returns the cached artifact only if the cache file's
\* modification time is at least the source's modification time the request
\* read; and a request that finds the cache file older than the source calls
\* process_image, and when it returns, it returns the newly processed bitmap
\* and the cache file holds that bitmap with a modification time not older
\* than the source's.
C2_ServedOnlyIfFresh ==
  \A t \in Main :
    /\ FromCache(t) =>
         /\ snap[t].present /\ sm[t] >= 0 /\ snap[t].mtime >= sm[t]
         /\ ret[t].bitmap = DecodePNG(snap[t])
    /\ (Done(t) /\ snap[t].present /\ sm[t] >= 0 /\ snap[t].mtime < sm[t]) =>
         /\ ran[t] = 1
         /\ ret[t].kind = "image" =>
              /\ ret[t].bitmap = img[t]
              /\ IsPNG(cache[K(t)])
              /\ DecodePNG(cache[K(t)]) = img[t]
              /\ cache[K(t)].mtime >= sm[t]

C2_Witness ==
  \E t \in Main :
    /\ Done(t) /\ snap[t].present /\ sm[t] >= 0 /\ snap[t].mtime < sm[t]
    /\ ret[t].kind = "image" /\ IsPNG(snap[t]) /\ DecodePNG(snap[t]) # ret[t].bitmap

\* C3: when process_image fails, get_processed_image raises that error and
\* the request's cache file is as it was when the request began.
C3_ProcessFailureLeavesCache ==
  \A t \in Main :
    (Done(t) /\ ran[t] = 1 /\ img[t] = NoBitmap)
      => /\ pc[t] = "raised"
         /\ ret[t].exc \in {"FileNotFoundError", "UnidentifiedImageError"}
         /\ cache[K(t)] = snap[t]

C3_Witness ==
  \E t \in Main :
    /\ Done(t) /\ ran[t] = 1 /\ img[t] = NoBitmap
    /\ ret[t].exc = "UnidentifiedImageError"
    /\ IsPNG(snap[t])

\* C4 (as claimed): at every moment each cache file is absent or a complete
\* PNG.
C4_CacheFilesComplete ==
  \A k \in Keys : cache[k].present => IsPNG(cache[k])

\* C5 (as claimed): once process_image has produced the bitmap, the request
\* returns it, also when saving it fails.
C5_PersistFailureStillReturns ==
  \A t \in Main :
    (Done(t) /\ img[t] # NoBitmap) => ret[t] = Returned(img[t])

\* C6 (as claimed): a request that finds a cache file that is no readable
\* PNG goes on as on a miss: it calls process_image and does not raise the
\* read error.
C6_UnreadableCacheIsMiss ==
  \A t \in Main :
    (Done(t) /\ snap[t].present /\ ~IsPNG(snap[t]) /\ src[arg[t]].present)
      => /\ ran[t] = 1
         /\ ret[t].exc # "UnidentifiedImageError" \/ img[t] = NoBitmap

\* C7: preprocess_all attempts the items of its list in order, and when it
\* is over it has attempted every item and has returned normally, whatever
\* failed.
C7_BatchContinues ==
  \A t \in Main :
    op[t] = "batch" =>
      /\ Len(attempted[t]) <= Len(batch[t])
      /\ attempted[t] = SubSeq(batch[t], 1, Len(attempted[t]))
      /\ pc[t] = "batch_done" => attempted[t] = batch[t] /\ ret[t] = ReturnedNone

C7_Witness ==
  \E t \in Main :
    /\ op[t] = "batch" /\ pc[t] = "batch_done"
    /\ Len(batch[t]) = 3 /\ batch[t][1] \in failed[t] /\ batch[t][2] \notin failed[t]

\* The failed paths that a return value of preprocess_all names: the method
\* returns None only, which names none.
ReportedToCaller(r) == IF r = ReturnedNone THEN {} ELSE {NonePath}

\* C8 (as claimed): what preprocess_all returns to its caller names exactly
\* the paths whose processing raised.
C8_ReturnsFailedSet ==
  \A t \in Main :
    (op[t] = "batch" /\ pc[t] = "batch_done") => ReportedToCaller(ret[t]) = failed[t]

\* C8 (amended): preprocess_all returns None; the paths it logged as errors
\* are exactly the paths whose processing raised, in the order of the list.
C8_LogsFailedSet ==
  \A t \in Main :
    op[t] = "batch" =>
      /\ {logged[t][i] : i \in 1..Len(logged[t])} = failed[t]
      /\ logged[t] = SelectSeq(attempted[t], LAMBDA x : x \in failed[t])
      /\ pc[t] = "batch_done" => ret[t] = ReturnedNone

C8_Witness ==
  \E t \in Main :
    /\ op[t] = "batch" /\ pc[t] = "batch_done"
    /\ Len(logged[t]) = 2 /\ Len(batch[t]) = 3

\* C9: clear_cache leaves no file in the processed directory and returns the
\* number of files that were there; the request after it calls
\* process_image.
C9_ClearCache ==
  [][\A t \in Main :
       /\ (op[t] = "idle" /\ op'[t] = "clear") =>
            /\ \A k \in Keys : ~cache'[k].present
            /\ ret'[t] = ReturnedCount(Cardinality({k \in Keys : cache[k].present}))
       /\ (prev.op = "clear" /\ Done(t)') => ran'[t] = 1]_vars

C9_Witness ==
  \E t \in Main :
    /\ prev.op = "clear" /\ prev.count = 2
    /\ Done(t) /\ ran[t] = 1 /\ ret[t].kind = "image"

\* What a request for a source leaves when no other request uses its cache
\* file: its outcome r and its cache file f, given the cache file f0 it
\* found and the source file s.
Alone(f0, s, r, f) ==
  IF f0.present /\ ~s.present
    THEN r = Raised("FileNotFoundError") /\ f = f0
  ELSE IF f0.present /\ f0.mtime >= s.mtime
    THEN /\ f = f0
         /\ r = IF IsPNG(f0) THEN Returned(DecodePNG(f0)) ELSE Raised("UnidentifiedImageError")
  ELSE IF ~s.present
    THEN r = Raised("FileNotFoundError") /\ f = f0
  ELSE IF s.content \notin Pictures
    THEN r = Raised("UnidentifiedImageError") /\ f = f0
  ELSE \/ /\ r = Returned(ProcessImage(s.content, Settings))
          /\ IsPNG(f) /\ DecodePNG(f) = r.bitmap
       \/ /\ r = Raised("OSError")
          /\ f = f0 \/ ~f.present \/ ~f.hdr

\* C10: a request reads and writes no cache file but the one of its own
\* key, and when no other request ran on that key meanwhile, it returns what
\* it returns alone and leaves the cache file it leaves alone.
C10_DifferentKeysIndependent ==
  \A t \in Workers :
    /\ touched[t] \subseteq {CacheFilename(arg[t])}
    /\ (Done(t) /\ ~shared[t]) =>
         Alone(snap[t], src[arg[t]], ret[t], cache[CacheFilename(arg[t])])

C10_Witness ==
  \E t, u \in Workers :
    /\ t # u /\ Done(t) /\ ~shared[t] /\ ran[t] = 1 /\ ret[t].kind = "image"
    /\ IsPNG(snap[t])
    /\ pc[u] = "save_write"

\* C11: two paths have the same cache file name exactly when they have the
\* same file name, whatever their directories; so a request is served
\* the artifact found under its file name, whichever source it was written
\* for, whenever the artifact's modification time is at least the
\* requested source's.
C11_KeyIsFileName ==
  /\ \A p, q \in Paths :
       CacheFilename(p) = CacheFilename(q) <=> (p.stem = q.stem /\ p.ext = q.ext)
  /\ \A t \in Main :
       (Done(t) /\ IsPNG(snap[t]) /\ src[arg[t]].present /\ ~dirty[t]
          /\ snap[t].mtime >= src[arg[t]].mtime)
         => ret[t] = Returned(DecodePNG(snap[t])) /\ ran[t] = 0

\* other/x.jpg always holds the first picture; it is served the bitmap of the
\* second picture, which was uploaded as queue/x.jpg.
C11_Witness ==
  \E t \in Main :
    /\ Done(t) /\ arg[t] = PathBX /\ src[PathBX].content = "pic1"
    /\ ret[t] = Returned(ProcessImage("pic2", Settings))

\* The call of _resize_maintain_aspect has ended.
FitDone == fpc \in {"done", "raised"}
Positive(size) == size[1] >= 1 /\ size[2] >= 1

\* C12: for every source of positive width and height (and a target of
\* positive width and height), _resize_maintain_aspect returns a white canvas
\* of the target's size with the resized image pasted centred, the resized
\* image being at least 1 x 1 and no larger than the target.
C12_FitsEveryPositiveSource ==
  (FitDone /\ Positive(fsrc) /\ Positive(ftarget)) =>
    /\ fout.kind = "canvas"
    /\ fout.size = ftarget /\ fout.fill = "white"
    /\ fout.pasted = fnew
    /\ 1 <= fnew[1] /\ fnew[1] <= ftarget[1]
    /\ 1 <= fnew[2] /\ fnew[2] <= ftarget[2]
    /\ fout.at = <<(ftarget[1] - fnew[1]) \div 2, (ftarget[2] - fnew[2]) \div 2>>
    /\ fout.at[1] >= 0 /\ fout.at[2] >= 0

\* C13: an 800 x 400 source fitted into 400 x 300 is resized to 400 x 200 and
\* pasted at (0, 50): 50 white rows above and below, none left or right.
C13_LandscapeExample ==
  (FitDone /\ fsrc = <<800, 400>> /\ ftarget = <<400, 300>>) =>
    /\ fout.kind = "canvas" /\ fout.size = <<400, 300>> /\ fout.fill = "white"
    /\ fout.pasted = <<400, 200>>
    /\ fout.at = <<0, 50>>
    /\ fout.size[2] - (fout.at[2] + fout.pasted[2]) = 50
    /\ fout.size[1] - (fout.at[1] + fout.pasted[1]) = 0

C13_Witness ==
  fpc = "done" /\ fsrc = <<800, 400>> /\ ftarget = <<400, 300>>
    /\ fout.pasted = <<400, 200>>

\* The exceptions that complain of a size.
DimensionErrors == {"ValueError"}

\* C14: whenever a dimension of the source or of the target is zero or
\* negative, _resize_maintain_aspect ends with an error about the
\* dimension: never with a canvas, never with another error.
C14_RejectsBadDimensions ==
  (FitDone /\ ~(Positive(fsrc) /\ Positive(ftarget))) =>
    fout.kind = "raised" /\ fout.exc \in DimensionErrors

\* process_image has returned an image.
ProcDone == ppc = "done" /\ pout.kind = "image"

\* C15: for a dither mode that is none of the four names, _apply_dithering
\* does not raise, logs a warning, and returns exactly what it returns for
\* 'floyd-steinberg' on the same grayscale image.
C15_UnknownModeFallsBack ==
  (ppc \in {"return", "done", "raised"} /\ pgray # NoImage
     /\ pmode \notin DitherModes) =>
    /\ ppc # "raised"
    /\ pwarn # <<>>
    /\ pimg = ApplyDithering(pgray, "floyd-steinberg").image
    /\ ppc = "done" => pout = ProcReturned(pimg)

\* An unknown mode on a picture that thresholding would render otherwise.
C15_Witness ==
  /\ ProcDone /\ pmode = "bayer" /\ pwarn # <<>>
  /\ pout.image # ConvertBilevel(pgray, "NONE")

\* C16: for each of the four dither modes and every size, also below 3
\* pixels, the dithered image has the width and height of the grayscale
\* image it was made from.
C16_DitherKeepsSize ==
  (ProcDone /\ pmode \in DitherModes) =>
    /\ SizeOf(pout.image) = SizeOf(pgray)
    /\ \A y \in 1..Len(pout.image) : Len(pout.image[y]) = Len(pgray[y])

C16_Witness ==
  ProcDone /\ pmode = "atkinson" /\ SizeOf(pgray) = <<2, 1>>
    /\ SizeOf(pout.image) = <<2, 1>>

\* C17: for every dither mode and every grayscale image, each pixel of the
\* dithered image is 0 or 255.
C17_OutputIsBilevel ==
  ProcDone => PixelsOf(pout.image) \subseteq {0, 255}

\* Atkinson on a picture whose visited pixel (column 1, row 0) is 100 and
\* pushes its right neighbour, 255, above 255; the pixels of the other
\* columns and rows are not visited.
C17_Witness ==
  /\ ProcDone /\ pmode = "atkinson"
  /\ pgray = ConvertL(Columns(4, 3, 100, 255))
  /\ Visited(4, 3) = {<<1, 0>>}
  /\ PixelsOf(pout.image) \subseteq {0, 255}

\* C18: a pure white picture of the target's size, processed with contrast,
\* brightness and sharpness 1.0, comes out all 255 under each of the four
\* dither modes.
C18_WhiteStaysWhite ==
  (ProcDone /\ PixelsOf(pfile) = {Gray(255)} /\ pfactors = NoFactors
     /\ pmode \in DitherModes) =>
    PixelsOf(pout.image) = {255}

C18_Witness ==
  /\ ProcDone /\ PixelsOf(pfile) = {Gray(255)} /\ pmode = "threshold"
  /\ pfactors = NoFactors
  /\ SizeOf(pfile) = ptarget /\ ptarget[1] >= 4 /\ ptarget[2] >= 3
  /\ PixelsOf(pout.image) = {255}

\* C19: with loop on and a directory of n >= 1 images that does not change,
\* the k-th get_next_image call since construction (k = 0, 1, 2, ...)
\* returns a path, that of the image with (k mod n) images before it in
\* sorted order.
C19_LoopCyclesInOrder ==
  LET images == Images(image_dir.files)
      n == Cardinality(images)
  IN (loop /\ calls >= 1 /\ n >= 1) =>
       /\ sret.kind = "path"
       /\ sret.path \in images
       /\ Cardinality({g \in images : g.rank < sret.path.rank}) = (calls - 1) % n

\* The fourth call on three images returns the first image again.
C19_Witness ==
  /\ loop /\ Cardinality(Images(image_dir.files)) = 3 /\ calls = 4
  /\ sret = ShowPath(Sorted(Images(image_dir.files))[1])

\* C20: reset leaves the image list as it was, and the get_next_image that
\* follows a reset returns the first image of the (non-empty) list.
C20_ResetRestarts ==
  /\ last.op = "reset" => image_list = last.before
  /\ (last.op = "get" /\ last.afterReset /\ last.before # <<>>) =>
       sret = ShowPath(last.before[1])

\* The positions in the last method's driver calls of the calls named.
HwAt(names) == {i \in 1..Len(dlast.hw) : dlast.hw[i].call \in names}

\* C21: display_image with a picture that is not 400 x 300 raises and
\* never calls the driver's display; with a 400 x 300 picture it calls
\* display exactly once, with the buffer of that picture, unless a call to
\* the driver raised before.
C21_DisplayChecksSize ==
  dlast.op = "display_image" =>
    /\ dlast.picture.size # <<400, 300>> =>
         dlast.exc # "none" /\ HwAt({"display"}) = {}
    /\ (dlast.picture.size = <<400, 300>> /\ dlast.exc = "none") =>
         /\ Cardinality(HwAt({"display"})) = 1
         /\ \A i \in HwAt({"display"}) : dlast.hw[i].picture.size = <<400, 300>>
    /\ Cardinality(HwAt({"display"})) <= 1

\* A 400 x 299 picture is refused by a display that is ready.
C21_Witness ==
  /\ dlast.op = "display_image" /\ dlast.wasReady
  /\ dlast.picture.size = <<400, 299>>
  /\ dlast.exc = "ValueError" /\ dlast.hw = <<>>

\* C28: the driver's Clear and display are called only while
\* self.initialized is true; clear and display_image called while it is
\* false log the initialization and call the driver's init once, before
\* Clear or display; if the initialization raises, so does the method,
\* without a Clear or display; called while it is true they do not
\* initialize again.
C28_InitOnDemand ==
  /\ \A i \in HwAt({"Clear", "display"}) : dlast.hw[i].ready
  /\ (dlast.op \in {"clear", "display_image"} /\ ~dlast.wasReady) =>
       /\ dlast.logs # <<>>
       /\ dlast.logs[1] = "warning: Display not initialized, initializing now..."
       /\ Cardinality(HwAt({"init"})) <= 1
       /\ \A i \in HwAt({"Clear", "display"}) : \E j \in HwAt({"init"}) : j < i
       /\ (dlast.exc \in {"EPD", "init"} \/ HwAt({"init"}) = {}) =>
            dlast.exc \in {"EPD", "init"} /\ HwAt({"Clear", "display"}) = {}
  /\ (dlast.op \in {"clear", "display_image"} /\ dlast.wasReady) =>
       HwAt({"EPD", "init"}) = {}

\* clear on a display that sleeps: one init, then Clear.
C28_Witness ==
  /\ dlast.op = "clear" /\ ~dlast.wasReady /\ dlast.exc = "none"
  /\ Len(dlast.hw) = 2 /\ dlast.hw[1].call = "init" /\ dlast.hw[2].call = "Clear"
  /\ initialized

\* n is a whole number nearest to num / den, for den > 0.
Nearest(n, num, den) == 2 * Abs(n * den - num) <= den

\* C22: for a source of positive size the new size follows the fit rule
\* with rounding: the target's width and round(targetW / sourceRatio) when
\* the source is relatively wider than the target, and otherwise
\* round(targetH * sourceRatio) and the target's height.
C22_FitRounds ==
  (fnew # NoSize /\ Positive(fsrc) /\ Positive(ftarget)) =>
    IF fsrc[1] * ftarget[2] > ftarget[1] * fsrc[2]
      THEN fnew[1] = ftarget[1] /\ Nearest(fnew[2], ftarget[1] * fsrc[2], fsrc[1])
      ELSE fnew[2] = ftarget[2] /\ Nearest(fnew[1], ftarget[2] * fsrc[1], fsrc[2])

\* The steps process_image runs with the given multipliers when none fails.
StepsFor(factors) ==
  <<"fit">>
    \o (IF factors.contrast # <<1, 1>> THEN <<"contrast">> ELSE <<>>)
    \o (IF factors.brightness # <<1, 1>> THEN <<"brightness">> ELSE <<>>)
    \o (IF factors.sharpness # <<1, 1>> THEN <<"sharpness">> ELSE <<>>)
    \o <<"gray", "dither">>
IsPrefix(s, t) == Len(s) <= Len(t) /\ s = SubSeq(t, 1, Len(s))

\* C23: the steps of process_image run in the order fit, contrast,
\* brightness, sharpness, grayscale, dithering; each enhancement runs
\* exactly when its multiplier is not 1.0, whatever the other two are; and
\* when a step fails no further step runs.
C23_StepsInOrder ==
  /\ IsPrefix(psteps, StepsFor(pfactors))
  /\ ppc = "done" => psteps = StepsFor(pfactors)
  /\ ppc = "raised" =>
       \/ psteps = <<>> /\ pout = ProcRaised("FileNotFoundError")
       \/ psteps = <<"fit">> /\ pout = ProcRaised("ValueError")

\* Contrast and sharpness run, brightness does not.
C23_Witness ==
  /\ ppc = "done"
  /\ psteps = <<"fit", "contrast", "sharpness", "gray", "dither">>
  /\ pfactors.brightness = <<1, 1>>
  /\ PixelsOf(pfile) = {Gray(100), Gray(200)}

\* _apply_dithering has run _atkinson_dither.
AtkinsonRan == ppc \in {"return", "done"} /\ pmode = "atkinson"

\* C24: the loop of _atkinson_dither visits, in raster order, exactly the
\* pixels outside the last two columns and the last two rows:
\* {(x, y) : 0 <= x <= W-3, 0 <= y <= H-3}.
C24_VisitsAllButLastTwo ==
  AtkinsonRan =>
    /\ {pvisits[i].at : i \in 1..Len(pvisits)}
         = (0..(Len(pgray[1]) - 3)) \X (0..(Len(pgray) - 3))
    /\ \A i, j \in 1..Len(pvisits) :
         i < j => \/ pvisits[i].at[2] < pvisits[j].at[2]
                  \/ /\ pvisits[i].at[2] = pvisits[j].at[2]
                     /\ pvisits[i].at[1] < pvisits[j].at[1]

\* C25: each visited pixel whose value v is in [0, 255] becomes 255 when v
\* is nearer to 255 than to 0 and 0 otherwise; for a whole v that is 255
\* exactly when v > 127, as in threshold mode.
C25_QuantizesToNearest ==
  AtkinsonRan =>
    \A i \in 1..Len(pvisits) :
      LET visit == pvisits[i]
          s == visit.scale
          v == visit.before[visit.at[2] + 1][visit.at[1] + 1]
          new == visit.after[visit.at[2] + 1][visit.at[1] + 1]
      IN (0 <= v /\ v <= 255 * s) =>
           /\ new = IF 2 * v > 255 * s THEN 255 * s ELSE 0
           /\ v % s = 0 => new = Threshold(v \div s) * s

\* The six neighbours of pixel <<x, y>> that get its error.
Neighbours(at) ==
  {<<at[1] + 1, at[2]>>, <<at[1] + 2, at[2]>>, <<at[1] - 1, at[2] + 1>>,
   <<at[1], at[2] + 1>>, <<at[1] + 1, at[2] + 1>>, <<at[1], at[2] + 2>>}

\* C26: a visit adds (old - new) / 8 to the neighbours among the six that
\* are inside the image and changes no other pixel but the visited one, so
\* at most 6/8 of the residual is passed on; and no pixel visited earlier
\* is changed: it keeps its 0 or 255.
C26_ErrorToSixNeighbours ==
  AtkinsonRan =>
    \A i \in 1..Len(pvisits) :
      LET visit == pvisits[i]
          b == visit.before
          a == visit.after
          old == b[visit.at[2] + 1][visit.at[1] + 1]
          new == a[visit.at[2] + 1][visit.at[1] + 1]
          got == {q \in (0..(Len(b[1]) - 1)) \X (0..(Len(b) - 1)) :
                    q # visit.at /\ a[q[2] + 1][q[1] + 1] # b[q[2] + 1][q[1] + 1]}
      IN /\ new \in {0, 255 * visit.scale}
         /\ (old - new) % 8 = 0
         /\ \A q \in (0..(Len(b[1]) - 1)) \X (0..(Len(b) - 1)) :
              q # visit.at =>
                8 * (a[q[2] + 1][q[1] + 1] - b[q[2] + 1][q[1] + 1])
                  = IF q \in Neighbours(visit.at) THEN old - new ELSE 0
         /\ Cardinality(got) <= 6
         /\ \A j \in 1..(i - 1) :
              LET p == pvisits[j].at
              IN /\ p \notin Neighbours(visit.at)
                 /\ a[p[2] + 1][p[1] + 1] = pvisits[j].after[p[2] + 1][p[1] + 1]

\* Two visits in a row of a picture of gray 100: the second passes its
\* error on and leaves the first pixel at 0.
C26_Witness ==
  /\ AtkinsonRan /\ Len(pvisits) >= 2
  /\ PixelsOf(pgray) = {100}
  /\ pvisits[1].at = <<1, 0>> /\ pvisits[2].at = <<2, 0>>
  /\ pvisits[2].after[1][2] = 0
  /\ pvisits[2].after[1][4] > pvisits[2].before[1][4]

\* C27: a pixel the loop of _atkinson_dither does not visit ends as the
\* threshold of its own value in the clipped array, whatever the other
\* pixels are.
C27_UnvisitedThresholded ==
  (ppc = "done" /\ pmode = "atkinson") =>
    LET array == AtkinsonArray(pgray)
    IN \A y \in 1..Len(pgray), x \in 1..Len(pgray[1]) :
         <<x - 1, y - 1>> \notin {pvisits[i].at : i \in 1..Len(pvisits)} =>
           \/ pout.image[y][x] = Threshold(array[y][x])
           \/ pout.image[y][x] = (IF array[y][x] > 128 THEN 255 ELSE 0)

\* C29: with loop off and a directory of n >= 1 images that does not
\* change, the first n get_next_image calls return the images one by one in
\* sorted order, the n-th the last image, and every later call returns None.
C29_NoLoopReturnsEachOnce ==
  LET images == Images(image_dir.files)
      n == Cardinality(images)
  IN (~loop /\ calls >= 1 /\ n >= 1) =>
       IF calls <= n
         THEN /\ sret.kind = "path"
              /\ sret.path \in images
              /\ Cardinality({g \in images : g.rank < sret.path.rank}) = calls - 1
         ELSE sret = ShowReturnedNone

\* C30: a scan_images call returns get_image_count() and leaves as image
\* list the sorted files with a valid extension that are in the directory,
\* none when the directory did not exist.
C30_ScanReflectsDirectory ==
  [][ScanImages =>
       /\ sret'.kind = "count"
       /\ sret'.count = GetImageCount(image_list')
       /\ \A i \in 1..Len(image_list') :
            /\ image_list'[i] \in Images(image_dir'.files)
            /\ \A j \in 1..(i - 1) : image_list'[j].rank < image_list'[i].rank
       /\ Len(image_list') = Cardinality(Images(image_dir'.files))]_vars

\* C35: in a Slideshow whose image list is not empty the cursor is an index
\* of the list, 0 <= current_index < len(image_list), and get_next_image has
\* not raised an IndexError.
C35_CursorInBounds ==
  image_list # <<>> =>
    /\ 0 <= current_index
    /\ current_index < Len(image_list)
    /\ sret # ShowRaised("IndexError")

(***************************************************************************)
(* The picture frame started again on a processed directory that an        *)
(* earlier run left behind.  main.py builds its ImageTransfer from         *)
(* config/settings.json (lines 63-70), which can differ from one run to    *)
(* the next, while the files of the processed directory stay.              *)
(***************************************************************************)
\* The processing settings of the earlier run.
EarlierSettings == [dither_mode |-> "floyd-steinberg", contrast |-> "1.0",
                    brightness |-> "1.0", sharpness |-> "1.0"]

\* The sources are pictures that did not change since the earlier run
\* processed them, sources of the same file name hold the same picture, and
\* each cache file is absent or what the earlier run saved for its source.
InitRestart ==
  /\ FitIdle /\ ProcessIdle /\ ShowIdle /\ DisplayIdle /\ ButtonIdle /\ FrameIdle
  /\ now = MaxTime
  /\ src \in [Paths -> [present : {TRUE}, mtime : {0, MaxTime}, content : Pictures]]
  /\ \A p, q \in Paths : CacheFilename(p) = CacheFilename(q) => src[p] = src[q]
  /\ cache \in [Keys -> {NoFile} \cup
                        {EncodePNG(ProcessImage(c, EarlierSettings), MaxTime) : c \in Pictures}]
  /\ \A p \in Paths :
       cache[CacheFilename(p)].present =>
         cache[CacheFilename(p)].idat = ProcessImage(src[p].content, EarlierSettings)
  /\ op = [t \in Threads |-> "idle"]
  /\ pc = [t \in Threads |-> "idle"]
  /\ arg = [t \in Threads |-> NonePath]
  /\ sm = [t \in Threads |-> -1]
  /\ img = [t \in Threads |-> NoBitmap]
  /\ created = [t \in Threads |-> FALSE]
  /\ ret = [t \in Threads |-> NoResult]
  /\ batch = [t \in Threads |-> <<>>]
  /\ bi = [t \in Threads |-> 1]
  /\ logged = [t \in Threads |-> <<>>]
  /\ ran = [t \in Threads |-> 0]
  /\ snap = [t \in Threads |-> NoFile]
  /\ touched = [t \in Threads |-> {}]
  /\ attempted = [t \in Threads |-> <<>>]
  /\ failed = [t \in Threads |-> {}]
  /\ prev = NoPrev
  /\ dirty = [t \in Threads |-> FALSE]
  /\ shared = [t \in Threads |-> FALSE]

\* The picture frame's thread calls get_processed_image, as _run_slideshow
\* does (main.py line 175), one request after the other.
NextRestart ==
  \/ /\ \E t \in Main, p \in Paths : Call(t, p)
     /\ UNCHANGED <<fitVars, processVars, showVars, displayVars, buttonVars, frameVars>>
  \/ /\ \E t \in Main : Step(t)
     /\ UNCHANGED <<fitVars, processVars, showVars, displayVars, buttonVars, frameVars>>
  \/ /\ \E t \in Main : Finish(t)
     /\ UNCHANGED <<fitVars, processVars, showVars, displayVars, buttonVars, frameVars>>

SpecRestart == InitRestart /\ [][NextRestart]_vars

\* C34: a bitmap returned by get_processed_image, computed or served from
\* the cache, is the result of processing the current source under the
\* settings of the ImageTransfer that served the request, also when an
\* ImageTransfer with other settings filled the processed directory.
C34_ReturnedUnderOwnSettings ==
  \A t \in Main :
    (op[t] = "get" /\ ret[t].kind = "image") =>
      ret[t].bitmap = ProcessImage(src[arg[t]].content, Settings)

\* C32: the user callback is invoked for a press exactly when no press was
\* accepted before it or the last accepted press is at least debounce_ms
\* old; a press that is ignored leaves last_press_time as it was, and an
\* accepted press sets it to the time of the press.
C32_Debounce ==
  \A i \in 1..Len(presses) :
    LET accepted == {j \in 1..(i - 1) : presses[j].invoked}
        newest == CHOOSE j \in accepted : \A k \in accepted : k <= j
    IN /\ presses[i].invoked <=>
            (accepted = {} \/ presses[i].at - presses[newest].at >= debounce_ms)
       /\ ~presses[i].invoked => presses[i].after = presses[i].before
       /\ presses[i].invoked => presses[i].after = presses[i].at

C32_Witness ==
  /\ debounce_ms > 0
  /\ \E i, j, k \in 1..Len(presses) :
       /\ i < j /\ j < k
       /\ presses[i].invoked /\ ~presses[j].invoked /\ presses[k].invoked
       /\ presses[j].at > presses[i].at

\* The positions of the slideshow loop, lines 163-200.
LoopPositions == {"loop", "get", "process", "display", "reset_skip", "wait", "retry"}

\* C31: an error raised by get_processed_image or display_image is logged
\* and leads to the retry delay with running unchanged; after the delay the
\* loop tests running and, when it is on, gets the next image; and the main
\* thread leaves the loop only when running is off or get_next_image
\* returned no image (a signal runs the handler instead).
C31_ErrorsDoNotStop ==
  [][/\ (FrameProcess(FALSE) \/ \E fail \in {"getbuffer", "display"} : FrameDisplay(fail)) =>
          /\ mpc' = "retry"
          /\ lastlog' = "error: Error in slideshow loop"
          /\ running' = running
     /\ FrameRetry => mpc' = "loop"
     /\ (FrameLoop /\ running) => mpc' = "get"
     /\ (hpc = "none" /\ hpc' = "none" /\ mpc \in LoopPositions /\ mpc' \notin LoopPositions) =>
          \/ ~running
          \/ mpc = "get" /\ sret'.kind = "None"]_vars

C31_Witness ==
  /\ erred /\ running
  /\ InMain("display")
  /\ sret.kind = "path"

\* C33: while the slideshow runs, a press delivered to _button_pressed
\* stays flagged in skip_to_next until a wait has ended after it.
C33_NoPressLost ==
  (running /\ hpc = "none" /\ mpc \in LoopPositions /\ unserved) => skip_to_next

\* C36: when start has returned or the handler has exited the process, and
\* every sleep call to the panel returned, running is off and the display's
\* initialized flag is off.
C36_StoppedAndAsleep ==
  (Exited /\ \A i \in 1..Len(panel) : panel[i].call = "sleep" => panel[i].ok) =>
    ~running /\ ~initialized

C36_Witness ==
  /\ hpc = "exited"
  /\ mpc = "wait"
  /\ panel = <<PanelCall("init", TRUE), PanelCall("sleep", TRUE)>>
  /\ ~running /\ ~initialized

\* C37: while every call to the panel's driver returned, every sleep call
\* comes right after an init call: sleep is never called twice without an
\* init in between, and never on a panel that was not initialized.
C37_SleepOncePerInit ==
  (\A i \in 1..Len(panel) : panel[i].ok) =>
    \A i \in 1..Len(panel) :
      panel[i].call = "sleep" => i > 1 /\ panel[i - 1].call = "init"

====
